---------------------------- MODULE Spec2Model ----------------------------
(***************************************************************************)
(* Verification model of bbq-monitor: the two wire-format decoders         *)
(* (src/src/protocol.rs), the reading freshness/confidence/safety state    *)
(* and the topology store (src/src/device_capabilities.rs) and the         *)
(* acquisition loop (src/src/main.rs).                                     *)
(*                                                                         *)
(* Temperatures are f32 in the source.  Every formula of the decoders is a *)
(* rational with denominator 100 (0.05 C steps, 0.1 C steps, 9/5, +32), so *)
(* the model carries temperatures as integers in hundredths of a degree    *)
(* Fahrenheit and confidence in hundredths; f32 rounding is not modelled.  *)
(***************************************************************************)
EXTENDS Integers, Sequences, FiniteSets, TLC

VARIABLES
    payload,      \* decoder input: the byte sequence handed to a decoder
    decoder,      \* which decoder produced decoded: "none", "meatstick", "meater"
    decoded,      \* result of the last decoder call on payload, or NoResult
    selected,     \* what get_internal_temp and get_ambient_temp chose from decoded
    now,          \* Utc::now(), in whole seconds
    caps,         \* the ProbeCapabilities a reading is evaluated against
    reading,      \* a ProbeReading
    lastOp,       \* the last operation applied to reading
    topology,     \* the NetworkTopology: devices, readings, signal_map, last_update
    callLog,      \* history: the readings handed to update_reading, in call order
    loopPc,       \* monitor_devices: "idle", "select", "poll" (in a poll pass), "done"
    devIdx,       \* position of the poll pass in connected_devices
    linkUp,       \* per connected device: what peripheral.is_connected() reports
    notification_count,  \* the counter monitor_devices returns
    returned,     \* the value monitor_devices returned, None while it runs
    db,           \* persistence sink: the rows insert_reading has written
    bcast,        \* broadcast sink: the updates handed to tx.send
    lastCall,     \* the last process_temperature_data call and its outcome
    decodedCount, \* payloads decoded so far in the session
    lastPoll,     \* when the last poll pass started (the loop's start before the first)
    lastServed,   \* the device last served by an event or a poll and the bytes it held
    connPc,       \* main's connection phase: "idle", "scan", "monitor", "exit", "abort"
    connIdx,      \* position of the connection loop in peripherals
    connLog,      \* history: per peripheral, how its loop iteration ended
    connected_devices,  \* the Vec main pushes set-up peripherals to
    sent,         \* tx.send calls the acquisition loop has completed
    tail,         \* broadcast channel: values written so far (the next position)
    rx,           \* the websocket client's Receiver: state and next position
    sendResult,   \* what the last tx.send returned: "none", "ok", "err"
    detName,      \* detect_from_device: the advertised name of the device at hand
    detAddress,   \* its address
    detServices,  \* its service identifiers
    detResult,    \* the profile the last call on this device returned, None before
    detPrev,      \* the profile the call before that returned, None before
    detCalls,     \* calls of detect_from_device so far
    licTier,      \* licensing: the tier a key is generated for
    licExpiry,    \* the expiry it is generated with (None: lifetime)
    licKey,       \* the key at hand: generated, entered, or empty
    licGenerated, \* whether licKey came from generate_license_key
    licValidated, \* whether validate ran on licKey
    licResult     \* what validate returned, NoValidation before

decodeVars == <<payload, decoder, decoded, selected>>

readingVars == <<caps, reading, lastOp>>

topologyVars == <<topology, callLog>>

loopVars == <<loopPc, devIdx, linkUp, notification_count, returned, db, bcast,
              lastCall, decodedCount, lastPoll, lastServed>>

connVars == <<connPc, connIdx, connLog, connected_devices>>

chanVars == <<sent, tail, rx, sendResult>>

detVars == <<detName, detAddress, detServices, detResult, detPrev, detCalls>>

licVars == <<licTier, licExpiry, licKey, licGenerated, licValidated, licResult>>

vars == <<payload, decoder, decoded, selected, now, caps, reading, lastOp, topology, callLog,
          loopPc, devIdx, linkUp, notification_count, returned, db, bcast,
          lastCall, decodedCount, lastPoll, lastServed,
          connPc, connIdx, connLog, connected_devices, sent, tail, rx, sendResult,
          detName, detAddress, detServices, detResult, detPrev, detCalls,
          licTier, licExpiry, licKey, licGenerated, licValidated, licResult>>

(***************************************************************************)
(* Integer helpers for the u16 / i32 arithmetic of the decoders.           *)
(***************************************************************************)
Pow2(n) == 2 ^ n

\* x >> n on an unsigned value
Shr(x, n) == x \div Pow2(n)

\* x << n on a u16: bits shifted past bit 15 are lost
Shl16(x, n) == (x * Pow2(n)) % 65536

RECURSIVE BitAnd(_, _)
BitAnd(a, b) ==
    IF a = 0 \/ b = 0 THEN 0
    ELSE (IF a % 2 = 1 /\ b % 2 = 1 THEN 1 ELSE 0) + 2 * BitAnd(a \div 2, b \div 2)

RECURSIVE BitOr(_, _)
BitOr(a, b) ==
    IF a = 0 THEN b
    ELSE IF b = 0 THEN a
    ELSE (IF a % 2 = 1 \/ b % 2 = 1 THEN 1 ELSE 0) + 2 * BitOr(a \div 2, b \div 2)

\* Rust integer division: the quotient is truncated toward zero
TruncDiv(a, b) == IF a >= 0 THEN a \div b ELSE -((-a) \div b)

Max(a, b) == IF a >= b THEN a ELSE b

Min(a, b) == IF a <= b THEN a ELSE b

\* data[k] with Rust's 0-based index; an index at or past the length is a panic,
\* reported by the decoders through their read sets, and yields 0 here
At(data, k) == IF k < Len(data) THEN data[k + 1] ELSE 0

(***************************************************************************)
(* Bit-packed decoder: MeatStickProtocol::parse_temperature_data           *)
(***************************************************************************)
MinLenMeatStick == 13

SensorCount == 8

FieldBits == 13

\* byte indices the loop body reads for the field that starts at bit_offset
SensorReads(bit_offset) ==
    LET byte_offset == bit_offset \div 8
        bit_shift == bit_offset % 8
        bits_in_first == 8 - bit_shift
    IN  IF bit_shift = 0
        THEN {byte_offset, byte_offset + 1}
        ELSE {byte_offset, byte_offset + 1}
             \cup (IF bits_in_first < 5 THEN {byte_offset + 2} ELSE {})

\* ExtractRaw with the third byte of a field dropped one alignment too early
\* (bits_in_first < 4 for bits_in_first < 5)
ExtractRawLateThirdByte(data, bit_offset) ==
    LET byte_offset == bit_offset \div 8
        bit_shift == bit_offset % 8
    IN  IF bit_shift = 0
        THEN BitOr(Shl16(BitAnd(At(data, byte_offset + 1), 31), 8), At(data, byte_offset))
        ELSE LET bits_in_first == 8 - bit_shift
                 low == Shr(At(data, byte_offset), bit_shift)
                 mid == Shl16(At(data, byte_offset + 1), bits_in_first)
                 high == IF bits_in_first < 4
                         THEN Shl16(BitAnd(At(data, byte_offset + 2), Pow2(13 - 8) - 1),
                                    bits_in_first + 8)
                         ELSE 0
             IN  BitAnd(BitOr(BitOr(high, mid), low), 8191)

\* raw_temp of one loop iteration
ExtractRaw(data, bit_offset) ==
    LET byte_offset == bit_offset \div 8
        bit_shift == bit_offset % 8
    IN  IF bit_shift = 0
        THEN LET low == At(data, byte_offset)
                 high == BitAnd(At(data, byte_offset + 1), 31)
             IN  BitOr(Shl16(high, 8), low)
        ELSE LET bits_in_first == 8 - bit_shift
                 low == Shr(At(data, byte_offset), bit_shift)
                 mid == Shl16(At(data, byte_offset + 1), bits_in_first)
                 high == IF bits_in_first < 5
                         THEN Shl16(BitAnd(At(data, byte_offset + 2), Pow2(13 - 8) - 1),
                                    bits_in_first + 8)
                         ELSE 0
             IN  BitAnd(BitOr(BitOr(high, mid), low), 8191)

\* temp_celsius = raw * 0.05 - 20.0, in hundredths of a degree
MeatStickCelsius(raw) == raw * 5 - 2000

\* a conversion that keeps whole degrees only
ToFahrenheitWholeDegrees(celsius) == (((celsius * 9) \div 5 + 3200) \div 100) * 100

\* temp_fahrenheit = temp_celsius * 9.0 / 5.0 + 32.0, in hundredths
ToFahrenheit(celsius) == (celsius * 9) \div 5 + 3200

\* a sanity band that starts at 0 F
MeatStickSanityNarrowBand(f) == IF f >= 0 /\ f <= 110000 THEN f ELSE 0

\* (-40.0..=1100.0).contains(&temp_fahrenheit), else the 0.0 sentinel is pushed
MeatStickSanity(f) == IF f >= -4000 /\ f <= 110000 THEN f ELSE 0

NoResult == [kind |-> "none", temps |-> <<>>, reads |-> {}]

\* the length guard accepting a payload one byte short
MeatStickTooShortOffByOne(data) == Len(data) < MinLenMeatStick - 1

\* data.len() < 13
MeatStickTooShort(data) == Len(data) < MinLenMeatStick

MeatStick_parse_temperature_data(data) ==
    IF MeatStickTooShort(data)
    THEN [kind |-> "err_len", temps |-> <<>>, reads |-> {}]
    ELSE LET reads == UNION {SensorReads(FieldBits * i) : i \in 0..(SensorCount - 1)}
             temperatures ==
                 [p \in 1..SensorCount |->
                     MeatStickSanity(ToFahrenheit(MeatStickCelsius(
                         ExtractRaw(data, FieldBits * (p - 1)))))]
         IN  IF \E k \in reads : k >= Len(data)
             THEN [kind |-> "panic", temps |-> <<>>, reads |-> reads]
             ELSE IF Len(temperatures) = 0
             THEN [kind |-> "err_empty", temps |-> <<>>, reads |-> reads]
             ELSE [kind |-> "ok", temps |-> temperatures, reads |-> reads]

(***************************************************************************)
(* Byte-formula decoder: MeaterProtocol::parse_temperature_data            *)
(***************************************************************************)
MinLenMeater == 8

\* u16::from_le_bytes([data[k], data[k + 1]])
U16le(data, k) == At(data, k) + 256 * At(data, k + 1)

\* raw / 10.0 Celsius converted to Fahrenheit, in hundredths
MeaterFahrenheit(raw) == ToFahrenheit(raw * 10)

MeaterInBand(f) == f >= -4000 /\ f <= 60000

\* the ambient formula without the clamp of the correction at 0
MeaterAmbientRawUnclamped(tip_raw, ra_raw, oa_raw) ==
    tip_raw + TruncDiv((ra_raw - Min(oa_raw, 48)) * 16 * 589, 1487)

MeaterAmbientRaw(tip_raw, ra_raw, oa_raw) ==
    tip_raw + Max(TruncDiv((ra_raw - Min(oa_raw, 48)) * 16 * 589, 1487), 0)

\* the length guard accepting a payload one byte short
MeaterTooShortOffByOne(data) == Len(data) < MinLenMeater - 1

\* data.len() < 8
MeaterTooShort(data) == Len(data) < MinLenMeater

\* the decoder holding the tip value to a band that ends at 100 F
Meater_parse_temperature_data_narrow_tip_band(data) ==
    IF MeaterTooShort(data)
    THEN [kind |-> "err_len", temps |-> <<>>, reads |-> {}]
    ELSE LET reads == {0, 1, 2, 3, 4, 5}
             tip_raw == U16le(data, 0)
             tip_fahrenheit == MeaterFahrenheit(tip_raw)
             ra_raw == U16le(data, 2)
             oa_raw == U16le(data, 4)
             ambient_fahrenheit == MeaterFahrenheit(MeaterAmbientRaw(tip_raw, ra_raw, oa_raw))
             tipPart == IF tip_fahrenheit >= -4000 /\ tip_fahrenheit <= 10000
                        THEN <<tip_fahrenheit>> ELSE <<>>
             ambPart == IF MeaterInBand(ambient_fahrenheit) THEN <<ambient_fahrenheit>> ELSE <<>>
         IN  IF \E k \in reads : k >= Len(data)
             THEN [kind |-> "panic", temps |-> <<>>, reads |-> reads]
             ELSE [kind |-> "ok", temps |-> tipPart \o ambPart, reads |-> reads]

Meater_parse_temperature_data(data) ==
    IF MeaterTooShort(data)
    THEN [kind |-> "err_len", temps |-> <<>>, reads |-> {}]
    ELSE LET reads == {0, 1, 2, 3, 4, 5}
             tip_raw == U16le(data, 0)
             tip_fahrenheit == MeaterFahrenheit(tip_raw)
             ra_raw == U16le(data, 2)
             oa_raw == U16le(data, 4)
             ambient_fahrenheit == MeaterFahrenheit(MeaterAmbientRaw(tip_raw, ra_raw, oa_raw))
             tipPart == IF MeaterInBand(tip_fahrenheit) THEN <<tip_fahrenheit>> ELSE <<>>
             ambPart == IF MeaterInBand(ambient_fahrenheit) THEN <<ambient_fahrenheit>> ELSE <<>>
         IN  IF \E k \in reads : k >= Len(data)
             THEN [kind |-> "panic", temps |-> <<>>, reads |-> reads]
             ELSE [kind |-> "ok", temps |-> tipPart \o ambPart, reads |-> reads]

(***************************************************************************)
(* Decoder inputs: payloads of every length up to MaxPayloadLen, a uniform *)
(* background byte with a window of three free bytes at any position (so   *)
(* every 13-bit field meets set and clear bits on both sides), and the     *)
(* payloads of the repository's own tests.                                 *)
(***************************************************************************)
MaxPayloadLen == 14

ByteVals == {0, 3, 76, 165, 255}

BaseBytes == {0, 255}

WindowPayload(len, base, pos, w) ==
    [k \in 1..len |->
        IF k - 1 = pos THEN w[1]
        ELSE IF k - 1 = pos + 1 THEN w[2]
        ELSE IF k - 1 = pos + 2 THEN w[3]
        ELSE base]

TestPayloads ==
    { <<76, 3, 0, 0, 0, 0, 0, 0, 0, 0, 0, 0, 0>>,
      <<222, 0, 0, 1, 0, 1, 0, 0>> }

Payloads ==
    { WindowPayload(len, base, pos, w) :
        len \in 0..MaxPayloadLen, base \in BaseBytes,
        pos \in 0..(MaxPayloadLen - 1), w \in ByteVals \X ByteVals \X ByteVals }
    \cup TestPayloads

\* Option<T>: None is the empty sequence, Some(v) the one-element sequence
None == <<>>

Some(v) == <<v>>

(***************************************************************************)
(* MeatStickProtocol::get_internal_temp and get_ambient_temp, which         *)
(* process_temperature_data applies to the decoded sequence                 *)
(***************************************************************************)
RECURSIVE FindLastPositive(_)
\* slice.iter().rev().find(|&&t| t > 0.0).copied()
FindLastPositive(slice) ==
    IF slice = <<>> THEN None
    ELSE IF slice[Len(slice)] > 0 THEN Some(slice[Len(slice)])
    ELSE FindLastPositive(SubSeq(slice, 1, Len(slice) - 1))

\* get_internal_temp that gives up when T4 is not valid
get_internal_temp_only_t4(temperatures) ==
    IF Len(temperatures) >= 4 /\ temperatures[4] > 0
    THEN Some(temperatures[4])
    ELSE None

\* temperatures[3] when it is above 0.0, else the first value above 0.0 met
\* going down from index min(len, 4) - 1
get_internal_temp(temperatures) ==
    IF temperatures = <<>>
    THEN None
    ELSE IF Len(temperatures) >= 4 /\ temperatures[4] > 0
    THEN Some(temperatures[4])
    ELSE FindLastPositive(SubSeq(temperatures, 1, Min(Len(temperatures), 4)))

\* temperatures[7] when it is above 0.0; else, from 6 entries on, the search
\* runs over temperatures[len - 1..], the last entry alone
get_ambient_temp(temperatures) ==
    IF Len(temperatures) >= 8 /\ temperatures[8] > 0
    THEN Some(temperatures[8])
    ELSE IF Len(temperatures) >= 6
    THEN FindLastPositive(SubSeq(temperatures, Len(temperatures), Len(temperatures)))
    ELSE None

NoSelection == [done |-> FALSE, internal_temp |-> None, ambient_temp |-> None]

DecodeInit ==
    /\ payload \in Payloads
    /\ decoder = "none"
    /\ decoded = NoResult
    /\ selected = NoSelection

\* the decoders at rest, in the specifications of the other components
DecodeIdle ==
    /\ payload = <<>>
    /\ decoder = "none"
    /\ decoded = NoResult
    /\ selected = NoSelection

DecodeMeatStick ==
    /\ decoder = "none"
    /\ decoder' = "meatstick"
    /\ decoded' = MeatStick_parse_temperature_data(payload)
    /\ UNCHANGED <<payload, selected, now, readingVars, topologyVars, loopVars,
                   connVars, chanVars, detVars, licVars>>

DecodeMeater ==
    /\ decoder = "none"
    /\ decoder' = "meater"
    /\ decoded' = Meater_parse_temperature_data(payload)
    /\ UNCHANGED <<payload, selected, now, readingVars, topologyVars, loopVars,
                   connVars, chanVars, detVars, licVars>>

\* process_temperature_data, on Ok(temperatures): the two selections
SelectTemperatures ==
    /\ decoder = "meatstick"
    /\ decoded.kind = "ok"
    /\ ~selected.done
    /\ selected' = [done |-> TRUE,
                    internal_temp |-> get_internal_temp(decoded.temps),
                    ambient_temp |-> get_ambient_temp(decoded.temps)]
    /\ UNCHANGED <<payload, decoder, decoded, now, readingVars, topologyVars, loopVars,
                   connVars, chanVars, detVars, licVars>>

NextDecode ==
    \/ DecodeMeatStick
    \/ DecodeMeater
    \/ SelectTemperatures

(***************************************************************************)
(* Device profiles: the ProbeCapabilities values detect_from_device builds *)
(* (limits in hundredths of a degree Fahrenheit).                          *)
(***************************************************************************)
CapsMeatStickV ==
    [brand |-> "MeatStickV", sensor_count |-> 8,
     max_ambient_temp_f |-> 100000, max_internal_temp_f |-> 20000,
     battery_life_hours |-> 24, range_feet |-> 650, has_repeater |-> FALSE]

CapsMeaterPlus ==
    [brand |-> "MeaterPlus", sensor_count |-> 2,
     max_ambient_temp_f |-> 52700, max_internal_temp_f |-> 21200,
     battery_life_hours |-> 24, range_feet |-> 165, has_repeater |-> FALSE]

(***************************************************************************)
(* ProbeReading: freshness, confidence and safety status                   *)
(***************************************************************************)
\* ProbeReading::new: the fields a fresh reading starts with
ProbeReading_new(probe_id, device_address, capabilities, t) ==
    [probe_id |-> probe_id,
     device_address |-> device_address,
     timestamp |-> t,
     temperatures |-> [i \in 1..Max(capabilities.sensor_count, 1) |-> 0],
     ambient_temp |-> None,
     signal_strength |-> 0,
     freshness |-> [tier |-> "Live", age |-> 0],
     confidence |-> 100,
     safety_status |-> "DeviceOffline"]

\* (Utc::now() - self.timestamp).num_seconds() as u64.  Readings are stamped with
\* Utc::now() and evaluated later, so the difference is not negative here.
AgeSeconds(t, timestamp) == t - timestamp

\* the confidence table with the 120 s step raised above the 30 s step
ConfidenceForRaisedStep(age_seconds) ==
    IF age_seconds <= 30 THEN 80
    ELSE IF age_seconds <= 120 THEN 100
    ELSE IF age_seconds <= 300 THEN 50
    ELSE IF age_seconds <= 600 THEN 20
    ELSE 0

\* match age_seconds { 0..=30 => 1.0, 31..=120 => 0.8, 121..=300 => 0.5,
\*                     301..=600 => 0.2, _ => 0.0 }, in hundredths
ConfidenceFor(age_seconds) ==
    IF age_seconds <= 30 THEN 100
    ELSE IF age_seconds <= 120 THEN 80
    ELSE IF age_seconds <= 300 THEN 50
    ELSE IF age_seconds <= 600 THEN 20
    ELSE 0

\* the freshness table with the confidence table's 120 s step in place of 300 s
FreshnessForConfidenceSteps(age_seconds) ==
    IF age_seconds <= 30 THEN [tier |-> "Live", age |-> age_seconds]
    ELSE IF age_seconds <= 120 THEN [tier |-> "Recent", age |-> age_seconds]
    ELSE IF age_seconds <= 600 THEN [tier |-> "Stale", age |-> age_seconds]
    ELSE [tier |-> "Dead", age |-> age_seconds]

\* match age_seconds { 0..=30 => Live(age), 31..=300 => Recent(age),
\*                     301..=600 => Stale(age), _ => Dead(age) }
FreshnessFor(age_seconds) ==
    IF age_seconds <= 30 THEN [tier |-> "Live", age |-> age_seconds]
    ELSE IF age_seconds <= 300 THEN [tier |-> "Recent", age |-> age_seconds]
    ELSE IF age_seconds <= 600 THEN [tier |-> "Stale", age |-> age_seconds]
    ELSE [tier |-> "Dead", age |-> age_seconds]

update_confidence(r, t) ==
    LET age_seconds == AgeSeconds(t, r.timestamp)
    IN  [r EXCEPT !.confidence = ConfidenceFor(age_seconds),
                  !.freshness = FreshnessFor(age_seconds)]

\* the ambient block: the status it leaves and whether the function returned
AmbientCheck(r, capabilities) ==
    IF r.ambient_temp # None
    THEN IF r.ambient_temp[1] > capabilities.max_ambient_temp_f
         THEN [status |-> "DangerousAmbient", returned |-> TRUE]
         ELSE IF r.ambient_temp[1] * 10 > capabilities.max_ambient_temp_f * 9
         THEN [status |-> "WarningAmbientHigh", returned |-> FALSE]
         ELSE [status |-> r.safety_status, returned |-> FALSE]
    ELSE [status |-> r.safety_status, returned |-> FALSE]

RECURSIVE InternalCheck(_, _, _, _)
\* the loop over self.temperatures from position i on, entered with status st
InternalCheck(temperatures, i, st, capabilities) ==
    IF i > Len(temperatures)
    THEN [status |-> st, returned |-> FALSE]
    ELSE IF temperatures[i] > capabilities.max_internal_temp_f
    THEN [status |-> "DangerousInternal", returned |-> TRUE]
    ELSE IF temperatures[i] * 10 > capabilities.max_internal_temp_f * 9
    THEN InternalCheck(temperatures, i + 1, "WarningInternalHigh", capabilities)
    ELSE InternalCheck(temperatures, i + 1, st, capabilities)

\* the closing if/else with the cut at 0.2 instead of 0.1
FinalStatusCutAtTwoTenths(st, confidence) ==
    IF confidence > 20 THEN "Safe" ELSE "DeviceOffline"

\* if self.confidence > 0.1 { Safe } else { DeviceOffline }: assigned whatever
\* status st the checks above left
FinalStatus(st, confidence) ==
    IF confidence > 10 THEN "Safe" ELSE "DeviceOffline"

\* update_safety_status with the internal loop run before the ambient block
update_safety_status_internal_first(r, capabilities, t) ==
    LET int == InternalCheck(r.temperatures, 1, r.safety_status, capabilities)
    IN  IF int.returned
        THEN [r EXCEPT !.safety_status = int.status]
        ELSE LET amb == AmbientCheck([r EXCEPT !.safety_status = int.status], capabilities)
             IN  IF amb.returned
                 THEN [r EXCEPT !.safety_status = amb.status]
                 ELSE LET aged == update_confidence(r, t)
                      IN  [aged EXCEPT !.safety_status = FinalStatus(amb.status, aged.confidence)]

\* update_safety_status re-evaluating the age before the limit checks
update_safety_status_confidence_first(r, capabilities, t) ==
    LET aged == update_confidence(r, t)
        amb == AmbientCheck(aged, capabilities)
    IN  IF amb.returned
        THEN [aged EXCEPT !.safety_status = amb.status]
        ELSE LET int == InternalCheck(aged.temperatures, 1, amb.status, capabilities)
             IN  IF int.returned
                 THEN [aged EXCEPT !.safety_status = int.status]
                 ELSE [aged EXCEPT !.safety_status = FinalStatus(int.status, aged.confidence)]

update_safety_status(r, capabilities, t) ==
    LET amb == AmbientCheck(r, capabilities)
    IN  IF amb.returned
        THEN [r EXCEPT !.safety_status = amb.status]
        ELSE LET int == InternalCheck(r.temperatures, 1, amb.status, capabilities)
             IN  IF int.returned
                 THEN [r EXCEPT !.safety_status = int.status]
                 ELSE LET aged == update_confidence(r, t)
                      IN  [aged EXCEPT !.safety_status = FinalStatus(int.status, aged.confidence)]

(***************************************************************************)
(* Reading inputs: temperature sequences around the internal limits, an    *)
(* ambient value around the ambient limits, and evaluation instants on     *)
(* both sides of every age threshold.                                      *)
(***************************************************************************)
MaxStart == 1

MaxTime == 700

TempVals == {7200, 18000, 18500, 20000, 20500}

TemperatureInputs ==
    {<<a>> : a \in TempVals} \cup {<<a, b>> : a \in TempVals, b \in {7200, 20500}}

AmbientInputs == {None} \cup {Some(a) : a \in {30000, 90000, 95000, 100000, 100500}}

Profiles == {CapsMeatStickV, CapsMeaterPlus}

AgeSteps == {30, 120, 300, 600}

TimePoints == ({s + d : s \in AgeSteps, d \in {0, 1}} \cup {MaxTime}) \cap (0..MaxTime)

NoReading == [probe_id |-> "none"]

ReadingInit ==
    /\ now \in 0..MaxStart
    /\ caps \in Profiles
    /\ \E temps \in TemperatureInputs, amb \in AmbientInputs :
          reading = [ProbeReading_new("probe0", "dev0", caps, now)
                        EXCEPT !.temperatures = temps, !.ambient_temp = amb]
    /\ lastOp = "new"

\* the reading state at rest, in the specifications of the other components
ReadingIdle ==
    /\ now = 0
    /\ caps = CapsMeatStickV
    /\ reading = NoReading
    /\ lastOp = "none"

\* time passes with no new payload
Tick ==
    /\ \E t \in TimePoints : t > now /\ now' = t
    /\ lastOp' = "tick"
    /\ UNCHANGED <<caps, reading, decodeVars, topologyVars, loopVars,
                   connVars, chanVars, detVars, licVars>>

UpdateConfidence ==
    /\ reading' = update_confidence(reading, now)
    /\ lastOp' = "update_confidence"
    /\ UNCHANGED <<now, caps, decodeVars, topologyVars, loopVars,
                   connVars, chanVars, detVars, licVars>>

UpdateSafetyStatus ==
    /\ reading' = update_safety_status(reading, caps, now)
    /\ lastOp' = "update_safety_status"
    /\ UNCHANGED <<now, caps, decodeVars, topologyVars, loopVars,
                   connVars, chanVars, detVars, licVars>>

NextReading ==
    \/ Tick
    \/ UpdateConfidence
    \/ UpdateSafetyStatus

(***************************************************************************)
(* NetworkTopology: the topology store                                     *)
(***************************************************************************)
HistoryCap == 100

\* HashMap::insert: the map f with key k bound to v
Put(f, k, v) == [x \in (DOMAIN f) \cup {k} |-> IF x = k THEN v ELSE f[x]]

EmptyMap == [x \in {} |-> 0]

NetworkTopology_new(t) ==
    [devices |-> EmptyMap, readings |-> EmptyMap, signal_map |-> EmptyMap,
     last_update |-> t]

add_device(top, device_address, capabilities, t) ==
    [top EXCEPT !.devices = Put(top.devices, device_address, capabilities),
                !.last_update = t]

\* the cap applied by dropping the entry just pushed instead of the oldest
TruncateHistoryDropsNewest(rssi_history) ==
    IF Len(rssi_history) > HistoryCap
    THEN SubSeq(rssi_history, 1, Len(rssi_history) - 1)
    ELSE rssi_history

\* if rssi_history.len() > 100 { rssi_history.remove(0); }
TruncateHistory(rssi_history) ==
    IF Len(rssi_history) > HistoryCap THEN Tail(rssi_history) ELSE rssi_history

update_reading(top, r, t) ==
    LET rssi_history == IF r.device_address \in DOMAIN top.signal_map
                        THEN top.signal_map[r.device_address]
                        ELSE <<>>
        pushed == Append(rssi_history, <<r.timestamp, r.signal_strength>>)
    IN  [top EXCEPT !.signal_map = Put(top.signal_map, r.device_address,
                                       TruncateHistory(pushed)),
                    !.readings = Put(top.readings, r.probe_id, r),
                    !.last_update = t]

(***************************************************************************)
(* Topology inputs.  The first MaxMixed calls of update_reading take any   *)
(* of the reading sources; after that one source keeps streaming, up to    *)
(* MaxCalls calls, so that a history passes the cap of 100 entries.        *)
(***************************************************************************)
MaxMixed == 3

MaxCalls == 103

Addresses == {"devA", "devB"}

\* (probe id, device address, rssi) of the readings handed to the store
ReadingSources ==
    { <<"probe1", "devA", -60>>, <<"probe2", "devA", -75>>, <<"probe3", "devB", -60>> }

TopologyInit ==
    /\ topology = NetworkTopology_new(0)
    /\ callLog = <<>>

\* the topology store at rest, in the specifications of the other components
TopologyIdle == TopologyInit

AddDevice ==
    /\ Len(callLog) <= MaxMixed
    /\ \E a \in Addresses, c \in Profiles :
          topology' = add_device(topology, a, c, now)
    /\ UNCHANGED <<callLog, now, decodeVars, readingVars, loopVars,
                   connVars, chanVars, detVars, licVars>>

UpdateReading ==
    /\ Len(callLog) < MaxCalls
    /\ \E src \in ReadingSources :
          /\ Len(callLog) >= MaxMixed =>
                (/\ src[1] = callLog[Len(callLog)].probe_id
                 /\ src[2] = callLog[Len(callLog)].device_address
                 /\ src[3] = callLog[Len(callLog)].signal_strength)
          /\ LET r == [ProbeReading_new(src[1], src[2], CapsMeatStickV, now + 1)
                          EXCEPT !.signal_strength = src[3]]
             IN  /\ topology' = update_reading(topology, r, now + 1)
                 /\ callLog' = Append(callLog, r)
    /\ now' = now + 1
    /\ UNCHANGED <<caps, reading, lastOp, decodeVars, loopVars,
                   connVars, chanVars, detVars, licVars>>

NextTopology ==
    \/ AddDevice
    \/ UpdateReading

(***************************************************************************)
(* The acquisition loop: monitor_devices and the functions it calls        *)
(***************************************************************************)
PollInterval == 5

\* connected_devices, with whether the peripheral exposes MEATSTICK_SERVICE with
\* MEATSTICK_CHAR (a MEATER device does not)
ConnectedDevices ==
    << [name |-> "cA00-1", address |-> "devA", capabilities |-> CapsMeatStickV,
        has_meatstick_char |-> TRUE],
       [name |-> "cA00-2", address |-> "devB", capabilities |-> CapsMeatStickV,
        has_meatstick_char |-> TRUE],
       [name |-> "MEATER Plus", address |-> "devC", capabilities |-> CapsMeaterPlus,
        has_meatstick_char |-> FALSE] >>

DeviceIds == DOMAIN ConnectedDevices

Ok(n) == [ok |-> TRUE, count |-> n]

Err == [ok |-> FALSE, count |-> 0]

\* the row insert_reading writes for position i (0-based) of a payload
ReadingRow(address, timestamp, i, temp, ambient_temp) ==
    [device_address |-> address, timestamp |-> timestamp, sensor_index |-> i,
     temperature |-> temp, ambient_temp |-> ambient_temp,
     battery_level |-> None, signal_strength |-> 0]

\* the TemperatureUpdate sent for position i (0-based) of a payload
TemperatureUpdate(address, name, timestamp, i, temp, ambient_temp) ==
    [device_address |-> address, device_name |-> name, timestamp |-> timestamp,
     sensor_index |-> i, temperature |-> temp, ambient_temp |-> ambient_temp,
     battery_level |-> None, signal_strength |-> 0]

\* process_temperature_data sending each update before it inserts the row
process_temperature_data_send_before_insert(data, name, address, t, failAt, db0, bcast0) ==
    LET parsed == MeatStick_parse_temperature_data(data)
    IN  IF parsed.kind = "ok"
        THEN LET temperatures == parsed.temps
                 ambient_temp == get_ambient_temp(temperatures)
                 done == Min(failAt, Len(temperatures))
                 handed == Min(failAt + 1, Len(temperatures))
             IN  [result |-> IF failAt < Len(temperatures) THEN Err ELSE Ok(Len(temperatures)),
                  db |-> db0 \o [i \in 1..done |->
                            ReadingRow(address, t, i - 1, temperatures[i], ambient_temp)],
                  bcast |-> bcast0 \o [i \in 1..handed |->
                            TemperatureUpdate(address, name, t, i - 1, temperatures[i],
                                              ambient_temp)],
                  called |-> TRUE,
                  call |-> [kind |-> "ok", address |-> address, name |-> name,
                            timestamp |-> t, temps |-> temperatures,
                            ambient_temp |-> ambient_temp, data |-> data,
                            decoder |-> "meatstick"]]
        ELSE [result |-> Ok(0), db |-> db0, bcast |-> bcast0, called |-> TRUE,
              call |-> [kind |-> "decode_err", address |-> address, name |-> name,
                        timestamp |-> t, temps |-> <<>>, ambient_temp |-> None,
                        data |-> data, decoder |-> "meatstick"]]

\* process_temperature_data with a decode failure passed on as its own failure
process_temperature_data_decode_err_fatal(data, name, address, t, failAt, db0, bcast0) ==
    LET parsed == MeatStick_parse_temperature_data(data)
    IN  IF parsed.kind = "ok"
        THEN LET temperatures == parsed.temps
                 ambient_temp == get_ambient_temp(temperatures)
                 done == Min(failAt, Len(temperatures))
             IN  [result |-> IF failAt < Len(temperatures) THEN Err ELSE Ok(Len(temperatures)),
                  db |-> db0 \o [i \in 1..done |->
                            ReadingRow(address, t, i - 1, temperatures[i], ambient_temp)],
                  bcast |-> bcast0 \o [i \in 1..done |->
                            TemperatureUpdate(address, name, t, i - 1, temperatures[i],
                                              ambient_temp)],
                  called |-> TRUE,
                  call |-> [kind |-> "ok", address |-> address, name |-> name,
                            timestamp |-> t, temps |-> temperatures,
                            ambient_temp |-> ambient_temp, data |-> data,
                            decoder |-> "meatstick"]]
        ELSE [result |-> Err, db |-> db0, bcast |-> bcast0, called |-> TRUE,
              call |-> [kind |-> "decode_err", address |-> address, name |-> name,
                        timestamp |-> t, temps |-> <<>>, ambient_temp |-> None,
                        data |-> data, decoder |-> "meatstick"]]

\* process_temperature_data at time t; failAt is the 0-based position whose
\* insert_reading fails (at or past the number of positions: none fails).
\* Yields the Result, the sinks afterwards and the record of the call
\* (called: process_temperature_data ran; call: what it was given and decoded).
process_temperature_data(data, name, address, t, failAt, db0, bcast0) ==
    LET parsed == MeatStick_parse_temperature_data(data)
    IN  IF parsed.kind = "ok"
        THEN LET temperatures == parsed.temps
                 ambient_temp == get_ambient_temp(temperatures)
                 done == Min(failAt, Len(temperatures))
             IN  [result |-> IF failAt < Len(temperatures) THEN Err ELSE Ok(Len(temperatures)),
                  db |-> db0 \o [i \in 1..done |->
                            ReadingRow(address, t, i - 1, temperatures[i], ambient_temp)],
                  bcast |-> bcast0 \o [i \in 1..done |->
                            TemperatureUpdate(address, name, t, i - 1, temperatures[i],
                                              ambient_temp)],
                  called |-> TRUE,
                  call |-> [kind |-> "ok", address |-> address, name |-> name,
                            timestamp |-> t, temps |-> temperatures,
                            ambient_temp |-> ambient_temp, data |-> data,
                            decoder |-> "meatstick"]]
        ELSE [result |-> Ok(0), db |-> db0, bcast |-> bcast0, called |-> TRUE,
              call |-> [kind |-> "decode_err", address |-> address, name |-> name,
                        timestamp |-> t, temps |-> <<>>, ambient_temp |-> None,
                        data |-> data, decoder |-> "meatstick"]]

NoCall ==
    [kind |-> "none", address |-> "", name |-> "", timestamp |-> 0, temps |-> <<>>,
     ambient_temp |-> None, data |-> <<>>, decoder |-> "none"]

\* nothing served: no event or poll reached a device, or the device held no bytes
NoServe == [address |-> "", brand |-> "", data |-> <<>>]

\* the device an event or a poll serves and the bytes its temperature
\* characteristic holds at that moment (read: what reading it yields)
Served(dev, read) ==
    IF read # None /\ read[1] # <<>>
    THEN [address |-> dev.address, brand |-> dev.capabilities.brand, data |-> read[1]]
    ELSE NoServe

\* the shared body without the service / characteristic test: what any device
\* returned goes to process_temperature_data
ReadAndProcessAnyCharacteristic(dev, read, t, failAt, db0, bcast0, call0) ==
    IF read # None /\ read[1] # <<>>
    THEN process_temperature_data(read[1], dev.name, dev.address, t, failAt, db0, bcast0)
    ELSE [result |-> Ok(0), db |-> db0, bcast |-> bcast0, called |-> FALSE, call |-> call0]

\* the body poll_device_readings and process_device_update share: for the
\* MEATSTICK_CHAR of the MEATSTICK_SERVICE, read and process what was read.
\* read is Err or Ok-wrapped bytes (Some(data)).
ReadAndProcess(dev, read, t, failAt, db0, bcast0, call0) ==
    IF dev.has_meatstick_char /\ read # None /\ read[1] # <<>>
    THEN process_temperature_data(read[1], dev.name, dev.address, t, failAt, db0, bcast0)
    ELSE [result |-> Ok(0), db |-> db0, bcast |-> bcast0, called |-> FALSE, call |-> call0]

poll_device_readings(dev, read, t, failAt, db0, bcast0, call0) ==
    ReadAndProcess(dev, read, t, failAt, db0, bcast0, call0)

\* discover_services().await? comes first
process_device_update(dev, discovered, read, t, failAt, db0, bcast0, call0) ==
    IF ~discovered
    THEN [result |-> Err, db |-> db0, bcast |-> bcast0, called |-> FALSE, call |-> call0]
    ELSE ReadAndProcess(dev, read, t, failAt, db0, bcast0, call0)

(***************************************************************************)
(* Loop inputs: what the transport and the persistence sink may do.        *)
(***************************************************************************)
MonitorDuration == 8

MaxDecoded == 2

\* seconds from the start of a select to the arrival of an event (below the 5 s
\* of the sleep it races)
EventGaps == {2}

\* bytes a characteristic read may return: nothing, too few, a full payload
LoopPayloads ==
    { <<>>, <<1, 2, 3>>, <<76, 3, 0, 0, 0, 0, 0, 0, 0, 0, 0, 0, 0>> }

\* outcome of peripheral.read: Err (None) or Ok(data)
ReadOutcomes == {None} \cup {Some(p) : p \in LoopPayloads}

\* position whose insert fails; 8 is past the last position: no insert fails
DbFailPositions == {0, 3, 8}

\* the transport hands over at most MaxDecoded payloads of full length
ReadAllowed(read) ==
    (read # None /\ Len(read[1]) >= MinLenMeatStick) => decodedCount < MaxDecoded

Elapsed == now

LoopInit ==
    /\ now = 0
    /\ loopPc = "select"
    /\ devIdx = 1
    /\ linkUp = [d \in DeviceIds |-> TRUE]
    /\ notification_count = 0
    /\ returned = None
    /\ db = <<>>
    /\ bcast = <<>>
    /\ lastCall = NoCall
    /\ decodedCount = 0
    /\ lastPoll = 0
    /\ lastServed = NoServe

\* the loop not started, in the specifications of the other components
LoopIdle ==
    /\ loopPc = "idle"
    /\ devIdx = 1
    /\ linkUp = [d \in DeviceIds |-> TRUE]
    /\ notification_count = 0
    /\ returned = None
    /\ db = <<>>
    /\ bcast = <<>>
    /\ lastCall = NoCall
    /\ decodedCount = 0
    /\ lastPoll = 0
    /\ lastServed = NoServe

\* the effect of one device's processing on the loop state
Apply(out, counted) ==
    /\ db' = out.db
    /\ bcast' = out.bcast
    /\ lastCall' = out.call
    /\ decodedCount' = IF out.called /\ out.call.kind = "ok"
                       THEN decodedCount + 1
                       ELSE decodedCount
    /\ notification_count' = IF counted /\ out.result.ok
                             THEN notification_count + out.result.count
                             ELSE notification_count

\* select!: Some(event) = events.next(), event = CentralEvent::DeviceUpdated(id)
EventDeviceUpdated ==
    /\ loopPc = "select"
    /\ Elapsed < MonitorDuration
    /\ \E gap \in EventGaps, d \in DeviceIds, discovered \in BOOLEAN,
          read \in ReadOutcomes, failAt \in DbFailPositions :
          /\ ReadAllowed(read)
          /\ now' = now + gap
          /\ Apply(process_device_update(ConnectedDevices[d], discovered, read, now + gap,
                                         failAt, db, bcast, lastCall), TRUE)
          /\ lastServed' = IF discovered THEN Served(ConnectedDevices[d], read) ELSE NoServe
    /\ UNCHANGED <<loopPc, devIdx, linkUp, returned, lastPoll, decodeVars, readingVars,
                   topologyVars,
                   connVars, chanVars, detVars, licVars>>

\* select!: event = CentralEvent::DeviceDisconnected(id): a warning is logged
EventDeviceDisconnected ==
    /\ loopPc = "select"
    /\ Elapsed < MonitorDuration
    /\ \E gap \in EventGaps, d \in DeviceIds :
          /\ linkUp[d]
          /\ linkUp' = [linkUp EXCEPT ![d] = FALSE]
          /\ now' = now + gap
    /\ UNCHANGED <<loopPc, devIdx, notification_count, returned, db, bcast, lastCall,
                   decodedCount, lastPoll, lastServed, decodeVars, readingVars, topologyVars,
                   connVars, chanVars, detVars, licVars>>

\* select!: any other CentralEvent: a debug line is logged
EventOther ==
    /\ loopPc = "select"
    /\ Elapsed < MonitorDuration
    /\ \E gap \in EventGaps : now' = now + gap
    /\ UNCHANGED <<loopVars, decodeVars, readingVars, topologyVars,
                   connVars, chanVars, detVars, licVars>>

\* select!: time::sleep(5 s) completes first: the poll pass starts
PollTick ==
    /\ loopPc = "select"
    /\ Elapsed < MonitorDuration
    /\ now' = now + PollInterval
    /\ loopPc' = "poll"
    /\ devIdx' = 1
    /\ lastPoll' = now + PollInterval
    /\ UNCHANGED <<linkUp, notification_count, returned, db, bcast, lastCall,
                   decodedCount, lastServed, decodeVars, readingVars, topologyVars,
                   connVars, chanVars, detVars, licVars>>

\* one device of the poll pass: polled when is_connected() reports true
\* (unwrap_or(false): a failing is_connected() counts as not connected)
PollDevice ==
    /\ loopPc = "poll"
    /\ \E read \in ReadOutcomes, failAt \in DbFailPositions :
          /\ ReadAllowed(read)
          /\ IF linkUp[devIdx]
             THEN /\ Apply(poll_device_readings(ConnectedDevices[devIdx], read, now, failAt,
                                                db, bcast, lastCall), TRUE)
                  /\ lastServed' = Served(ConnectedDevices[devIdx], read)
             ELSE /\ lastServed' = NoServe
                  /\ UNCHANGED <<db, bcast, lastCall, decodedCount, notification_count>>
    /\ devIdx' = IF devIdx < Len(ConnectedDevices) THEN devIdx + 1 ELSE 1
    /\ loopPc' = IF devIdx < Len(ConnectedDevices) THEN "poll" ELSE "select"
    /\ UNCHANGED <<now, linkUp, returned, lastPoll, decodeVars, readingVars, topologyVars,
                   connVars, chanVars, detVars, licVars>>

\* a return that does not wait for the monitoring duration
ReturnAnyTime ==
    /\ loopPc = "select"
    /\ loopPc' = "done"
    /\ returned' = Some(notification_count)
    /\ UNCHANGED <<now, devIdx, linkUp, notification_count, db, bcast, lastCall,
                   decodedCount, lastPoll, lastServed, decodeVars, readingVars, topologyVars,
                   connVars, chanVars, detVars, licVars>>

\* while start_time.elapsed() < timeout fails: Ok(notification_count)
Return ==
    /\ loopPc = "select"
    /\ Elapsed >= MonitorDuration
    /\ loopPc' = "done"
    /\ returned' = Some(notification_count)
    /\ UNCHANGED <<now, devIdx, linkUp, notification_count, db, bcast, lastCall,
                   decodedCount, lastPoll, lastServed, decodeVars, readingVars, topologyVars,
                   connVars, chanVars, detVars, licVars>>

NextLoop ==
    \/ EventDeviceUpdated
    \/ EventDeviceDisconnected
    \/ EventOther
    \/ PollTick
    \/ PollDevice
    \/ Return

(***************************************************************************)
(* main's connection phase (src/src/main.rs, lines 134-200): the loop over  *)
(* the scanned peripherals that fills connected_devices.                    *)
(***************************************************************************)
\* FilterConfig::default(): device_prefixes, mac_filters, min_rssi
FilterConfig ==
    [device_prefixes |-> {"cA00", "cA02", "Y0C"}, mac_filters |-> {}, min_rssi |-> -80]

\* the peripherals the scan found.  prefix is the start of the advertised name
\* that starts_with() and contains() look at; the two flags say which of the
\* characteristics setup_notifications subscribes to the peripheral exposes.
Peripherals ==
    << [name |-> "cA00-1", prefix |-> "cA00", address |-> "devA",
        has_meatstick_char |-> TRUE, has_uart_rx_char |-> FALSE],
       [name |-> "cA00-2", prefix |-> "cA00", address |-> "devB",
        has_meatstick_char |-> TRUE, has_uart_rx_char |-> TRUE],
       [name |-> "MEATER Plus", prefix |-> "meater", address |-> "devC",
        has_meatstick_char |-> FALSE, has_uart_rx_char |-> TRUE] >>

\* is_bbq_device: the name patterns (no peripheral here has the 40:51:6C address)
is_bbq_device(p) ==
    \/ p.prefix \in {"cA00", "cA02", "Y0C"}
    \/ p.prefix = "meater"
    \/ p.prefix \in {"igrill", "weber"}

should_connect(p, rssi) ==
    IF rssi < FilterConfig.min_rssi
    THEN FALSE
    ELSE IF FilterConfig.mac_filters # {} /\ p.address \notin FilterConfig.mac_filters
    THEN FALSE
    ELSE IF FilterConfig.device_prefixes # {} /\ p.prefix \notin FilterConfig.device_prefixes
    THEN FALSE
    ELSE is_bbq_device(p)

\* setup_notifications: Ok(subscribed); a failing subscribe is logged, never
\* returned.  subscribe: whether peripheral.subscribe succeeds.
setup_notifications(p, subscribe) ==
    \/ p.has_meatstick_char /\ subscribe
    \/ p.has_uart_rx_char /\ subscribe

\* how one iteration of the connection loop ends.  props: what
\* peripheral.properties() gives ("err", "none", "some"); connect, discover,
\* upsert, subscribe: whether connect(), discover_services(), upsert_device()
\* and subscribe() succeed.
connect_peripheral(p, props, rssi, connect, discover, upsert, subscribe) ==
    IF props = "err" THEN "abort_transport"
    ELSE IF props = "none" THEN "no_props"
    ELSE IF ~should_connect(p, rssi) THEN "filtered"
    ELSE IF ~connect THEN "connect_failed"
    ELSE IF ~discover THEN "abort_transport"
    ELSE IF ~upsert THEN "abort_persistence"
    ELSE IF setup_notifications(p, subscribe) THEN "monitored"
    ELSE "not_subscribed"

PropsOutcomes == {"err", "none", "some"}

RssiVals == {-90, -60}

ConnInit ==
    /\ connPc = "scan"
    /\ connIdx = 1
    /\ connLog = [i \in DOMAIN Peripherals |-> "none"]
    /\ connected_devices = <<>>

\* the connection phase not modelled, in the specifications of the other components
ConnIdle ==
    /\ connPc = "idle"
    /\ connIdx = 1
    /\ connLog = [i \in DOMAIN Peripherals |-> "none"]
    /\ connected_devices = <<>>

\* one iteration of `for peripheral in peripherals`; a `?` that fires ends main
ConnectPeripheral ==
    /\ connPc = "scan"
    /\ connIdx <= Len(Peripherals)
    /\ \E props \in PropsOutcomes, rssi \in RssiVals, connect \in BOOLEAN,
          discover \in BOOLEAN, upsert \in BOOLEAN, subscribe \in BOOLEAN :
          LET outcome == connect_peripheral(Peripherals[connIdx], props, rssi, connect,
                                            discover, upsert, subscribe)
              aborted == outcome \in {"abort_transport", "abort_persistence"}
          IN  /\ connLog' = [connLog EXCEPT ![connIdx] = outcome]
              /\ connected_devices' = IF outcome = "monitored"
                                      THEN Append(connected_devices, connIdx)
                                      ELSE connected_devices
              /\ connPc' = IF aborted THEN "abort" ELSE "scan"
              /\ connIdx' = IF aborted THEN connIdx ELSE connIdx + 1
    /\ UNCHANGED <<now, decodeVars, readingVars, topologyVars, loopVars, chanVars, detVars, licVars>>

\* after the loop: adapter.stop_scan().await?, then Ok(()) when no device was
\* set up, monitor_devices otherwise
FinishScan ==
    /\ connPc = "scan"
    /\ connIdx = Len(Peripherals) + 1
    /\ \E stop_scan \in BOOLEAN :
          connPc' = IF ~stop_scan THEN "abort"
                    ELSE IF connected_devices = <<>> THEN "exit"
                    ELSE "monitor"
    /\ UNCHANGED <<now, connIdx, connLog, connected_devices, decodeVars, readingVars,
                   topologyVars, loopVars, chanVars, detVars, licVars>>

NextConnect ==
    \/ ConnectPeripheral
    \/ FinishScan

(***************************************************************************)
(* The broadcast sink: the tokio broadcast channel start_server creates     *)
(* (src/src/web_server.rs, line 80), the acquisition loop sends to          *)
(* (src/src/main.rs, line 542) and a websocket client receives from         *)
(* (src/src/web_server.rs, lines 203-240).  Positions count the values      *)
(* written; the channel retains the last ChannelCapacity of them.           *)
(***************************************************************************)
ChannelCapacity == 100

\* the oldest position the channel still retains
Oldest(tail0) == Max(0, tail0 - ChannelCapacity)

\* a send that waits for room, as a bounded queue does, while the receiver has
\* not taken the oldest retained value
broadcast_send_waits_when_full(tail0, rx0) ==
    IF rx0.state # "subscribed"
    THEN [blocked |-> FALSE, result |-> "err", tail |-> tail0]
    ELSE [blocked |-> tail0 - rx0.next >= ChannelCapacity, result |-> "ok",
          tail |-> tail0 + 1]

\* tx.send(update): with no receiver the value comes back as Err; otherwise it
\* is written at the tail, over the oldest retained value when the channel is
\* full.  The call is not async: it never waits.
broadcast_send(tail0, rx0) ==
    IF rx0.state # "subscribed"
    THEN [blocked |-> FALSE, result |-> "err", tail |-> tail0]
    ELSE [blocked |-> FALSE, result |-> "ok", tail |-> tail0 + 1]

\* rx.recv(): Lagged when the next position was overwritten, the value when
\* there is one, pending otherwise
broadcast_recv(tail0, rx0) ==
    IF rx0.next < Oldest(tail0) THEN "lagged"
    ELSE IF rx0.next < tail0 THEN "ok"
    ELSE "pending"

MaxSends == 103

NoReceiver == [state |-> "none", next |-> 0]

ChanInit ==
    /\ sent = 0
    /\ tail = 0
    /\ rx = NoReceiver
    /\ sendResult = "none"

ChanIdle == ChanInit

\* `let _ = tx.send(update)` for one temperature position: the result is
\* dropped and the for loop goes on to the next position
SendUpdate ==
    /\ sent < MaxSends
    /\ LET out == broadcast_send(tail, rx)
       IN  /\ ~out.blocked
           /\ tail' = out.tail
           /\ sendResult' = out.result
    /\ sent' = sent + 1
    /\ UNCHANGED <<now, rx, decodeVars, readingVars, topologyVars, loopVars, connVars, detVars, licVars>>

\* handle_socket: state.tx.subscribe() for a connecting websocket client
Subscribe ==
    /\ rx.state = "none"
    /\ rx' = [state |-> "subscribed", next |-> tail]
    /\ UNCHANGED <<now, sent, tail, sendResult, decodeVars, readingVars, topologyVars,
                   loopVars, connVars, detVars, licVars>>

\* handle_socket: one turn of `while let Ok(update) = rx.recv().await`; the
\* loop ends on Lagged and when socket.send fails, and rx is dropped
Recv ==
    /\ rx.state = "subscribed"
    /\ broadcast_recv(tail, rx) # "pending"
    /\ \E socket_send \in BOOLEAN :
          rx' = IF broadcast_recv(tail, rx) = "ok" /\ socket_send
                THEN [rx EXCEPT !.next = rx.next + 1]
                ELSE [state |-> "closed", next |-> rx.next]
    /\ UNCHANGED <<now, sent, tail, sendResult, decodeVars, readingVars, topologyVars,
                   loopVars, connVars, detVars, licVars>>

NextBroadcast ==
    \/ SendUpdate
    \/ Subscribe
    \/ Recv

(***************************************************************************)
(* ProbeCapabilities::detect_from_device (src/src/device_capabilities.rs,  *)
(* lines 67-176).  A string is the sequence of its characters, so that      *)
(* starts_with, contains and the case conversions are computed.  A service  *)
(* identifier is written by the first group of its UUID.                    *)
(***************************************************************************)
LowerLetters ==
    <<"a", "b", "c", "d", "e", "f", "g", "h", "i", "j", "k", "l", "m",
      "n", "o", "p", "q", "r", "s", "t", "u", "v", "w", "x", "y", "z">>

UpperLetters ==
    <<"A", "B", "C", "D", "E", "F", "G", "H", "I", "J", "K", "L", "M",
      "N", "O", "P", "Q", "R", "S", "T", "U", "V", "W", "X", "Y", "Z">>

\* str::to_uppercase, on the characters the inputs are made of
to_uppercase(str) ==
    [i \in DOMAIN str |->
        IF \E k \in DOMAIN LowerLetters : LowerLetters[k] = str[i]
        THEN UpperLetters[CHOOSE k \in DOMAIN LowerLetters : LowerLetters[k] = str[i]]
        ELSE str[i]]

\* str::to_lowercase
to_lowercase(str) ==
    [i \in DOMAIN str |->
        IF \E k \in DOMAIN UpperLetters : UpperLetters[k] = str[i]
        THEN LowerLetters[CHOOSE k \in DOMAIN UpperLetters : UpperLetters[k] = str[i]]
        ELSE str[i]]

\* str::starts_with
starts_with(str, prefix) ==
    Len(str) >= Len(prefix) /\ SubSeq(str, 1, Len(prefix)) = prefix

\* str::contains
contains(str, pat) ==
    \E i \in 0..(Len(str) - Len(pat)) : SubSeq(str, i + 1, i + Len(pat)) = pat

\* MEATSTICK_SERVICE.to_string(): Uuid prints in lower case
MEATSTICK_SERVICE == <<"8", "d", "5", "3", "d", "c", "1", "d">>

\* COMBUSTION_UART_SERVICE.to_string()
COMBUSTION_UART_SERVICE == <<"6", "e", "4", "0", "0", "0", "0", "1">>

\* detect_from_device with a model name that changes from call to call
detect_from_device_counting_calls(device_name, mac_address, services) ==
    [brand |-> "Unknown", brand_name |-> device_name,
     model |-> device_name \o <<"#">> \o [i \in 1..now |-> "I"],
     sensor_count |-> 1, max_ambient_temp_f |-> 50000, max_internal_temp_f |-> 20000,
     battery_life_hours |-> Some(8), range_feet |-> Some(30), has_repeater |-> FALSE,
     service_uuids |-> services]

\* detect_from_device without the fallback arm for names no rule knows
detect_from_device_rejecting_unknown(device_name, mac_address, services) ==
    [brand |-> "Unknown", brand_name |-> <<>>, model |-> <<>>,
     sensor_count |-> 0, max_ambient_temp_f |-> 0, max_internal_temp_f |-> 0,
     battery_life_hours |-> None, range_feet |-> None, has_repeater |-> FALSE,
     service_uuids |-> services]

\* detect_from_device with the MEATER arm tried before the "cA00" and "cA02" arms
detect_from_device_meater_first(device_name, mac_address, services) ==
    IF contains(to_uppercase(device_name), <<"M", "E", "A", "T", "E", "R">>)
    THEN [brand |-> "MeaterOriginal", brand_name |-> <<>>, model |-> device_name,
          sensor_count |-> 2, max_ambient_temp_f |-> 52700,
          max_internal_temp_f |-> 21200, battery_life_hours |-> Some(8),
          range_feet |-> Some(33), has_repeater |-> FALSE, service_uuids |-> services]
    ELSE [brand |-> "Unknown", brand_name |-> device_name, model |-> device_name,
          sensor_count |-> 1, max_ambient_temp_f |-> 50000,
          max_internal_temp_f |-> 20000, battery_life_hours |-> Some(8),
          range_feet |-> Some(30), has_repeater |-> FALSE, service_uuids |-> services]

\* the match on device_name, arm by arm; brand_name is the String of
\* ProbeBrand::Unknown (empty for the other brands)
detect_from_device(device_name, mac_address, services) ==
    LET has_meatstick_service ==
            \E k \in DOMAIN services :
                to_lowercase(services[k]) = to_lowercase(MEATSTICK_SERVICE)
        has_uart_service ==
            \E k \in DOMAIN services :
                to_lowercase(services[k]) = to_lowercase(COMBUSTION_UART_SERVICE)
    IN  IF starts_with(device_name, <<"c", "A", "0", "0">>)
        THEN IF has_meatstick_service \/ has_uart_service
             THEN [brand |-> "MeatStickV", brand_name |-> <<>>, model |-> device_name,
                   sensor_count |-> 8, max_ambient_temp_f |-> 100000,
                   max_internal_temp_f |-> 20000, battery_life_hours |-> Some(24),
                   range_feet |-> Some(650), has_repeater |-> FALSE,
                   service_uuids |-> services]
             ELSE [brand |-> "MeatStickV1", brand_name |-> <<>>, model |-> device_name,
                   sensor_count |-> 2, max_ambient_temp_f |-> 60000,
                   max_internal_temp_f |-> 20000, battery_life_hours |-> Some(8),
                   range_feet |-> Some(165), has_repeater |-> FALSE,
                   service_uuids |-> services]
        ELSE IF starts_with(device_name, <<"c", "A", "0", "2">>)
        THEN [brand |-> "MeatStickV", brand_name |-> <<>>,
              model |-> device_name \o <<"_", "B", "A", "S", "E">>,
              sensor_count |-> 0, max_ambient_temp_f |-> 0, max_internal_temp_f |-> 0,
              battery_life_hours |-> None, range_feet |-> Some(650),
              has_repeater |-> TRUE, service_uuids |-> services]
        ELSE IF contains(to_uppercase(device_name), <<"M", "E", "A", "T", "E", "R">>)
        THEN IF \/ contains(device_name, <<"B", "L", "O", "C", "K">>)
                \/ contains(device_name, <<"B", "l", "o", "c", "k">>)
             THEN [brand |-> "MeaterBlock", brand_name |-> <<>>, model |-> device_name,
                   sensor_count |-> 0, max_ambient_temp_f |-> 0,
                   max_internal_temp_f |-> 0, battery_life_hours |-> None,
                   range_feet |-> Some(165), has_repeater |-> TRUE,
                   service_uuids |-> services]
             ELSE IF \/ contains(device_name, <<"P", "L", "U", "S">>)
                     \/ contains(device_name, <<"P", "l", "u", "s">>)
             THEN [brand |-> "MeaterPlus", brand_name |-> <<>>, model |-> device_name,
                   sensor_count |-> 2, max_ambient_temp_f |-> 52700,
                   max_internal_temp_f |-> 21200, battery_life_hours |-> Some(24),
                   range_feet |-> Some(165), has_repeater |-> FALSE,
                   service_uuids |-> services]
             ELSE [brand |-> "MeaterOriginal", brand_name |-> <<>>, model |-> device_name,
                   sensor_count |-> 2, max_ambient_temp_f |-> 52700,
                   max_internal_temp_f |-> 21200, battery_life_hours |-> Some(8),
                   range_feet |-> Some(33), has_repeater |-> FALSE,
                   service_uuids |-> services]
        ELSE [brand |-> "Unknown", brand_name |-> device_name, model |-> device_name,
              sensor_count |-> 1, max_ambient_temp_f |-> 50000,
              max_internal_temp_f |-> 20000, battery_life_hours |-> Some(8),
              range_feet |-> Some(30), has_repeater |-> FALSE,
              service_uuids |-> services]

(***************************************************************************)
(* Detection inputs: names that meet one rule, several rules or none, in    *)
(* both letter cases, and service lists with and without the two known      *)
(* identifiers, in lower and in upper case.                                 *)
(***************************************************************************)
DetectNames ==
    { <<"c", "A", "0", "0", "-", "1">>,
      <<"c", "A", "0", "0", "M", "E", "A", "T", "E", "R">>,
      <<"c", "A", "0", "2">>,
      <<"c", "A", "0", "2", "M", "E", "A", "T", "E", "R">>,
      <<"x", "c", "A", "0", "0">>,
      <<"M", "E", "A", "T", "E", "R">>,
      <<"m", "e", "a", "t", "e", "r", "+">>,
      <<"M", "e", "a", "t", "e", "r", " ", "P", "l", "u", "s">>,
      <<"M", "E", "A", "T", "E", "R", " ", "P", "L", "U", "S">>,
      <<"m", "e", "a", "t", "e", "r", " ", "p", "l", "u", "s">>,
      <<"M", "E", "A", "T", "E", "R", " ", "B", "l", "o", "c", "k">>,
      <<"M", "E", "A", "T", "E", "R", " ", "P", "L", "U", "S", " ", "B", "L", "O", "C", "K">>,
      <<"W", "e", "b", "e", "r">>,
      <<>> }

DetectAddresses == {"devA", "40:51:6C:00:00:01"}

DetectServices ==
    { <<>>,
      << <<"8", "d", "5", "3", "d", "c", "1", "d">> >>,
      << <<"1", "8", "0", "a">>, <<"6", "E", "4", "0", "0", "0", "0", "1">> >>,
      << <<"a", "7", "5", "c", "c", "7", "f", "c">> >> }

MaxDetects == 2

DetectInit ==
    /\ detName \in DetectNames
    /\ detAddress \in DetectAddresses
    /\ detServices \in DetectServices
    /\ detResult = None
    /\ detPrev = None
    /\ detCalls = 0

\* no device being resolved, in the specifications of the other components
DetectIdle ==
    /\ detName = <<>>
    /\ detAddress = ""
    /\ detServices = <<>>
    /\ detResult = None
    /\ detPrev = None
    /\ detCalls = 0

\* a call of detect_from_device on the device at hand, some time after the
\* call before it
DetectFromDevice ==
    /\ detCalls < MaxDetects
    /\ detCalls' = detCalls + 1
    /\ now' = now + 1
    /\ detPrev' = detResult
    /\ detResult' = Some(detect_from_device(detName, detAddress, detServices))
    /\ UNCHANGED <<detName, detAddress, detServices, decodeVars, readingVars,
                   topologyVars, loopVars, connVars, chanVars, licVars>>

\* the connection loop moves on to another peripheral
NextDevice ==
    /\ detCalls < MaxDetects
    /\ detResult # None
    /\ detName' \in DetectNames
    /\ detAddress' \in DetectAddresses
    /\ detServices' \in DetectServices
    /\ <<detName', detAddress', detServices'>> # <<detName, detAddress, detServices>>
    /\ detResult' = None
    /\ detPrev' = None
    /\ UNCHANGED <<now, detCalls, decodeVars, readingVars, topologyVars, loopVars,
                   connVars, chanVars, licVars>>

NextDetect ==
    \/ DetectFromDevice
    \/ NextDevice

(***************************************************************************)
(* Licensing (src/src/premium.rs): generate_license_key and                 *)
(* LicenseValidator::validate.  A text is the sequence of its characters, a *)
(* byte string the sequence of their ASCII codes.  A DateTime<Utc> is a     *)
(* year (0..9999, the years RFC 3339 writes) and a second of the first      *)
(* minute of that year; Utc::now() is second now of CurrentYear.  The four  *)
(* characters no text of the model holds are written by name.               *)
(***************************************************************************)
AsciiChars ==
    <<" ", "!", "QUOTE", "#", "$", "%", "&", "APOSTROPHE", "(", ")", "*", "+", ",", "-", ".", "/",
      "0", "1", "2", "3", "4", "5", "6", "7", "8", "9", ":", ";", "<", "=", ">", "?",
      "@", "A", "B", "C", "D", "E", "F", "G", "H", "I", "J", "K", "L", "M", "N", "O",
      "P", "Q", "R", "S", "T", "U", "V", "W", "X", "Y", "Z", "[", "BACKSLASH", "]", "^", "_",
      "BACKTICK", "a", "b", "c", "d", "e", "f", "g", "h", "i", "j", "k", "l", "m", "n", "o",
      "p", "q", "r", "s", "t", "u", "v", "w", "x", "y", "z", "{", "|", "}", "~">>

\* str::as_bytes, character by character
as_bytes(text) ==
    [i \in DOMAIN text |-> 31 + CHOOSE k \in DOMAIN AsciiChars : AsciiChars[k] = text[i]]

\* String::from_utf8_lossy on bytes: an ASCII byte is its character, a byte
\* that starts no valid sequence becomes the replacement character
from_utf8_lossy(bytes) ==
    [i \in DOMAIN bytes |->
        IF bytes[i] >= 32 /\ bytes[i] <= 126 THEN AsciiChars[bytes[i] - 31] ELSE "U+FFFD"]

\* the alphabet of base64::engine::general_purpose::STANDARD
Base64Alphabet ==
    <<"A", "B", "C", "D", "E", "F", "G", "H", "I", "J", "K", "L", "M", "N", "O", "P",
      "Q", "R", "S", "T", "U", "V", "W", "X", "Y", "Z", "a", "b", "c", "d", "e", "f",
      "g", "h", "i", "j", "k", "l", "m", "n", "o", "p", "q", "r", "s", "t", "u", "v",
      "w", "x", "y", "z", "0", "1", "2", "3", "4", "5", "6", "7", "8", "9", "+", "/">>

\* STANDARD.encode: three bytes give four characters, the last group is padded
\* with "="
Base64Encode(bytes) ==
    LET n == Len(bytes)
        B(i) == IF i <= n THEN bytes[i] ELSE 0
        Triple(g) == B(3 * g + 1) * 65536 + B(3 * g + 2) * 256 + B(3 * g + 3)
        Sextet(g, j) ==
            CASE j = 0 -> Triple(g) \div 262144
              [] j = 1 -> (Triple(g) \div 4096) % 64
              [] j = 2 -> (Triple(g) \div 64) % 64
              [] OTHER -> Triple(g) % 64
        Char(g, j) ==
            IF j <= Min(3, n - 3 * g) THEN Base64Alphabet[Sextet(g, j) + 1] ELSE "="
    IN  [k \in 1..(4 * ((n + 2) \div 3)) |-> Char((k - 1) \div 4, (k - 1) % 4)]

\* STANDARD.decode: None for Err (a length that is no multiple of 4, a
\* character outside the alphabet, padding anywhere but at the end, set bits
\* past the last byte), else Some(bytes)
Base64Decode(chars) ==
    LET n == Len(chars)
        pad == IF n >= 2 /\ chars[n] = "=" /\ chars[n - 1] = "=" THEN 2
               ELSE IF n >= 1 /\ chars[n] = "=" THEN 1
               ELSE 0
        InAlphabet(c) == \E k \in DOMAIN Base64Alphabet : Base64Alphabet[k] = c
        Val(i) == IF i <= n - pad
                  THEN (CHOOSE k \in DOMAIN Base64Alphabet : Base64Alphabet[k] = chars[i]) - 1
                  ELSE 0
        Quad(g) == Val(4 * g + 1) * 262144 + Val(4 * g + 2) * 4096
                       + Val(4 * g + 3) * 64 + Val(4 * g + 4)
        Byte(g, j) ==
            CASE j = 0 -> Quad(g) \div 65536
              [] j = 1 -> (Quad(g) \div 256) % 256
              [] OTHER -> Quad(g) % 256
        len == 3 * (n \div 4) - pad
        last == Quad((n \div 4) - 1)
    IN  IF \/ n % 4 # 0
           \/ \E i \in 1..(n - pad) : ~InAlphabet(chars[i])
           \/ (pad = 1 /\ last % 256 # 0)
           \/ (pad = 2 /\ last % 65536 # 0)
        THEN None
        ELSE Some([k \in 1..len |-> Byte((k - 1) \div 3, (k - 1) % 3)])

DigitChars == <<"0", "1", "2", "3", "4", "5", "6", "7", "8", "9">>

CurrentYear == 2026

\* Utc::now() at model time t
UtcNow(t) == [year |-> CurrentYear, sec |-> t]

\* a < b on DateTime<Utc>
Before(a, b) == a.year < b.year \/ (a.year = b.year /\ a.sec < b.sec)

\* DateTime<Utc>::to_rfc3339: "YYYY-01-01T00:00:SS+00:00"
to_rfc3339(dt) ==
    << DigitChars[((dt.year \div 1000) % 10) + 1], DigitChars[((dt.year \div 100) % 10) + 1],
       DigitChars[((dt.year \div 10) % 10) + 1], DigitChars[(dt.year % 10) + 1],
       "-", "0", "1", "-", "0", "1", "T", "0", "0", ":", "0", "0", ":",
       DigitChars[((dt.sec \div 10) % 10) + 1], DigitChars[(dt.sec % 10) + 1],
       "+", "0", "0", ":", "0", "0" >>

\* DateTime::parse_from_rfc3339(text).ok().map(|dt| dt.with_timezone(&Utc)), on
\* the texts of the first minute of a year at offset +00:00; None for
\* anything that is not such a date and time
parse_from_rfc3339(text) ==
    LET IsDigit(c) == \E k \in DOMAIN DigitChars : DigitChars[k] = c
        DigitVal(c) == (CHOOSE k \in DOMAIN DigitChars : DigitChars[k] = c) - 1
    IN
    IF /\ Len(text) = 25
       /\ \A i \in {1, 2, 3, 4, 18, 19} : IsDigit(text[i])
       /\ SubSeq(text, 5, 17) = <<"-", "0", "1", "-", "0", "1", "T", "0", "0", ":", "0", "0", ":">>
       /\ SubSeq(text, 20, 25) = <<"+", "0", "0", ":", "0", "0">>
       /\ DigitVal(text[18]) * 10 + DigitVal(text[19]) <= 59
    THEN Some([year |-> DigitVal(text[1]) * 1000 + DigitVal(text[2]) * 100
                          + DigitVal(text[3]) * 10 + DigitVal(text[4]),
               sec |-> DigitVal(text[18]) * 10 + DigitVal(text[19])])
    ELSE None

RECURSIVE Split(_, _)
\* text.split(sep).collect()
Split(text, sep) ==
    IF \E i \in DOMAIN text : text[i] = sep
    THEN LET i == CHOOSE i \in DOMAIN text : text[i] = sep /\ \A j \in 1..(i - 1) : text[j] # sep
         IN  <<SubSeq(text, 1, i - 1)>> \o Split(SubSeq(text, i + 1, Len(text)), sep)
    ELSE <<text>>

RECURSIVE JoinChunks(_)
\* chars.chunks(4) ... .join("-")
JoinChunks(chars) ==
    IF Len(chars) <= 4 THEN chars
    ELSE SubSeq(chars, 1, 4) \o <<"-">> \o JoinChunks(SubSeq(chars, 5, Len(chars)))

\* PremiumFeatures::free()
PremiumFeatures_free ==
    [cloud_sync |-> FALSE, unlimited_history |-> FALSE, cook_profiles |-> FALSE,
     remote_access |-> FALSE, advanced_analytics |-> FALSE, alerts |-> FALSE]

\* PremiumFeatures::premium()
PremiumFeatures_premium ==
    [cloud_sync |-> TRUE, unlimited_history |-> TRUE, cook_profiles |-> TRUE,
     remote_access |-> TRUE, advanced_analytics |-> TRUE, alerts |-> TRUE]

\* License::free() at time t
License_free(t) ==
    [tier |-> "Free", features |-> PremiumFeatures_free, expires_at |-> None,
     issued_at |-> UtcNow(t), license_key |-> <<>>]

\* License::is_valid at time t
is_valid(license, t) ==
    IF license.expires_at # None THEN Before(UtcNow(t), license.expires_at[1]) ELSE TRUE

\* License::is_expired at time t
is_expired(license, t) == ~is_valid(license, t)

\* generate_license_key at time t: "TIER|EXPIRY|ISSUED", base64, dashes
generate_license_key(tier, expires_at, t) ==
    LET issued_at == UtcNow(t)
        tier_str == IF tier = "Premium"
                    THEN <<"P", "R", "E", "M", "I", "U", "M">>
                    ELSE <<"F", "R", "E", "E">>
        expiry_str == IF expires_at # None
                      THEN to_rfc3339(expires_at[1])
                      ELSE <<"N", "E", "V", "E", "R">>
        issued_str == to_rfc3339(issued_at)
        data == tier_str \o <<"|">> \o expiry_str \o <<"|">> \o issued_str
        encoded == Base64Encode(as_bytes(data))
    IN  JoinChunks(encoded)

\* decode_license: None for Err
decode_license(license_key) ==
    LET cleaned == SelectSeq(license_key, LAMBDA c : c # "-" /\ c # " ")
    IN  Base64Decode(cleaned)

\* verify_signature: accepts everything
verify_signature(data) == TRUE

\* parse_license at time t
parse_license(data, t) ==
    LET text == from_utf8_lossy(data)
        parts == Split(text, "|")
    IN  IF Len(parts) < 3
        THEN License_free(t)
        ELSE LET tier == IF parts[1] = <<"P", "R", "E", "M", "I", "U", "M">>
                         THEN "Premium" ELSE "Free"
                 expires_at == IF parts[2] = <<"N", "E", "V", "E", "R">>
                               THEN None
                               ELSE parse_from_rfc3339(parts[2])
                 issued == parse_from_rfc3339(parts[3])
                 issued_at == IF issued # None THEN issued[1] ELSE UtcNow(t)
                 features == IF tier = "Premium"
                             THEN PremiumFeatures_premium
                             ELSE PremiumFeatures_free
             IN  [tier |-> tier, features |-> features, expires_at |-> expires_at,
                  issued_at |-> issued_at, license_key |-> <<>>]

NoLicense == [tier |-> "none", features |-> PremiumFeatures_free, expires_at |-> None,
              issued_at |-> UtcNow(0), license_key |-> <<>>]

\* validate that does not look at the expiry
validate_ignoring_expiry(license_key, t) ==
    IF license_key = <<>>
    THEN [ok |-> TRUE, license |-> License_free(t)]
    ELSE LET bytes == decode_license(license_key)
         IN  IF bytes = None
             THEN [ok |-> FALSE, license |-> NoLicense]
             ELSE [ok |-> TRUE, license |-> parse_license(bytes[1], t)]

\* LicenseValidator::validate at time t: Err (ok FALSE) or Ok(license)
validate(license_key, t) ==
    IF license_key = <<>>
    THEN [ok |-> TRUE, license |-> License_free(t)]
    ELSE LET bytes == decode_license(license_key)
         IN  IF bytes = None
             THEN [ok |-> FALSE, license |-> NoLicense]
             ELSE IF ~verify_signature(bytes[1])
             THEN [ok |-> TRUE, license |-> License_free(t)]
             ELSE LET license == parse_license(bytes[1], t)
                  IN  IF is_expired(license, t)
                      THEN [ok |-> TRUE, license |-> License_free(t)]
                      ELSE [ok |-> TRUE, license |-> license]

(***************************************************************************)
(* Licensing inputs: both tiers; no expiry and expiries in earlier years,   *)
(* in later years and within the current minute; the generated key, the     *)
(* empty key and a key that is not base64.                                  *)
(***************************************************************************)
Tiers == {"Free", "Premium"}

Expiries ==
    {None} \cup {Some([year |-> y, sec |-> s]) : y \in {0, 2025, 2026, 2027, 9999},
                                                s \in {0, 2, 59}}

MalformedKey == <<"n", "o", "t", " ", "b", "a", "s", "e", "6", "4", "!">>

MaxLicenseTime == 3

NoValidation == [ok |-> FALSE, license |-> NoLicense]

LicenseInit ==
    /\ licTier \in Tiers
    /\ licExpiry \in Expiries
    /\ licKey = <<>>
    /\ licGenerated = FALSE
    /\ licValidated = FALSE
    /\ licResult = NoValidation

\* no licence being handled, in the specifications of the other components
LicenseIdle ==
    /\ licTier = "Free"
    /\ licExpiry = None
    /\ licKey = <<>>
    /\ licGenerated = FALSE
    /\ licValidated = FALSE
    /\ licResult = NoValidation

\* the licence tool generates a key
GenerateLicenseKey ==
    /\ ~licGenerated
    /\ ~licValidated
    /\ licKey' = generate_license_key(licTier, licExpiry, now)
    /\ licGenerated' = TRUE
    /\ UNCHANGED <<licTier, licExpiry, licValidated, licResult, now, decodeVars,
                   readingVars, topologyVars, loopVars, connVars, chanVars, detVars>>

\* the user enters something that is no key
EnterMalformedKey ==
    /\ ~licGenerated
    /\ ~licValidated
    /\ licKey = <<>>
    /\ licKey' = MalformedKey
    /\ UNCHANGED <<licTier, licExpiry, licGenerated, licValidated, licResult, now,
                   decodeVars, readingVars, topologyVars, loopVars, connVars, chanVars,
                   detVars>>

\* time passes between generation and validation
LicenseTick ==
    /\ ~licValidated
    /\ now < MaxLicenseTime
    /\ now' = now + 1
    /\ UNCHANGED <<licVars, decodeVars, readingVars, topologyVars, loopVars, connVars,
                   chanVars, detVars>>

\* the program validates the key it was given (the empty key when none was)
Validate ==
    /\ ~licValidated
    /\ licValidated' = TRUE
    /\ licResult' = validate(licKey, now)
    /\ UNCHANGED <<licTier, licExpiry, licKey, licGenerated, now, decodeVars,
                   readingVars, topologyVars, loopVars, connVars, chanVars, detVars>>

NextLicense ==
    \/ GenerateLicenseKey
    \/ EnterMalformedKey
    \/ LicenseTick
    \/ Validate

InitLoop ==
    /\ LoopInit
    /\ payload = <<>> /\ decoder = "none" /\ decoded = NoResult /\ selected = NoSelection
    /\ caps = CapsMeatStickV /\ reading = NoReading /\ lastOp = "none"
    /\ TopologyInit
    /\ ConnIdle
    /\ ChanIdle
    /\ DetectIdle
    /\ LicenseIdle

SpecLoop == InitLoop /\ [][NextLoop]_vars

\* every await of the loop completes: a step that can be taken is taken
SpecLoopFair == SpecLoop /\ WF_vars(NextLoop)

InitConnect ==
    /\ ConnInit /\ now = 0 /\ DecodeIdle /\ ReadingIdle /\ TopologyIdle /\ LoopIdle
    /\ ChanIdle /\ DetectIdle /\ LicenseIdle

SpecConnect == InitConnect /\ [][NextConnect]_vars

InitBroadcast ==
    /\ ChanInit /\ now = 0 /\ DecodeIdle /\ ReadingIdle /\ TopologyIdle /\ LoopIdle
    /\ ConnIdle /\ DetectIdle /\ LicenseIdle

InitDetect ==
    /\ DetectInit /\ DecodeIdle /\ ReadingIdle /\ TopologyIdle /\ LoopIdle /\ ConnIdle
    /\ ChanIdle /\ LicenseIdle

InitLicense ==
    /\ LicenseInit /\ now = 0 /\ DecodeIdle /\ ReadingIdle /\ TopologyIdle /\ LoopIdle
    /\ ConnIdle /\ ChanIdle /\ DetectIdle

SpecLicense == InitLicense /\ [][NextLicense]_vars

SpecDetect == InitDetect /\ [][NextDetect]_vars

SpecBroadcast == InitBroadcast /\ [][NextBroadcast]_vars

InitTopology ==
    /\ TopologyInit /\ DecodeIdle /\ ReadingIdle /\ LoopIdle /\ ConnIdle /\ ChanIdle
    /\ DetectIdle
    /\ LicenseIdle

SpecTopology == InitTopology /\ [][NextTopology]_vars

InitReading ==
    /\ ReadingInit /\ DecodeIdle /\ TopologyIdle /\ LoopIdle /\ ConnIdle /\ ChanIdle
    /\ DetectIdle
    /\ LicenseIdle

SpecReading == InitReading /\ [][NextReading]_vars

InitDecode ==
    /\ DecodeInit /\ ReadingIdle /\ TopologyIdle /\ LoopIdle /\ ConnIdle /\ ChanIdle
    /\ DetectIdle
    /\ LicenseIdle

SpecDecode == InitDecode /\ [][NextDecode]_vars

(***************************************************************************)
(* Claims about the decoders (checked under SpecDecode).                   *)
(***************************************************************************)
\* stream bit k of the payload: bit k mod 8 of byte k div 8
StreamBit(data, k) == (data[(k \div 8) + 1] \div Pow2(k % 8)) % 2

RECURSIVE StreamBits(_, _, _)
\* the unsigned value of the n stream bits that start at bit k, least significant first
StreamBits(data, k, n) ==
    IF n = 0 THEN 0 ELSE StreamBit(data, k) + 2 * StreamBits(data, k + 1, n - 1)

\* C1: for every payload of at least 13 bytes the bit-packed decoder returns, at
\* each position i in 0..7, ((raw_i * 0.05) - 20) * 9/5 + 32 (= 0.09 * raw_i - 4),
\* raw_i being the 13 stream bits [13i, 13i+13) of the payload; a first field of
\* 844 gives a value within 1 F of 72 F at position 0.
C1_BitPackedFieldValues ==
    (decoder = "meatstick" /\ Len(payload) >= 13) =>
        /\ decoded.kind = "ok"
        /\ Len(decoded.temps) = 8
        /\ \A i \in 0..7 :
              decoded.temps[i + 1] = 9 * StreamBits(payload, 13 * i, 13) - 400
        /\ StreamBits(payload, 0, 13) = 844 =>
              (decoded.temps[1] > 7100 /\ decoded.temps[1] < 7300)

\* C1 witness: a decoded payload whose first field is 844 (71.96 F at position 0)
\* and whose field 6, which spans three bytes, and field 7 are non-zero.
C1_Witness ==
    /\ decoder = "meatstick"
    /\ decoded.kind = "ok"
    /\ StreamBits(payload, 0, 13) = 844
    /\ decoded.temps[1] = 7196
    /\ StreamBits(payload, 78, 13) = 8191
    /\ decoded.temps[7] = 73319

\* C2: a payload shorter than the decoder's minimum (13 bytes bit-packed, 8 bytes
\* byte-formula) gives a length error with no payload byte read; at or above the
\* minimum no decoder reads an index at or past the payload length (no panic).
C2_LengthGuardAndBounds ==
    /\ decoder = "meatstick" =>
          IF Len(payload) < 13
          THEN decoded.kind = "err_len" /\ decoded.reads = {}
          ELSE decoded.kind # "panic" /\ \A k \in decoded.reads : k < Len(payload)
    /\ decoder = "meater" =>
          IF Len(payload) < 8
          THEN decoded.kind = "err_len" /\ decoded.reads = {}
          ELSE decoded.kind # "panic" /\ \A k \in decoded.reads : k < Len(payload)

\* C2 witness: a 12-byte payload, one byte short, rejected by the bit-packed decoder
\* with a length error and nothing read.
C2_Witness ==
    /\ decoder = "meatstick"
    /\ Len(payload) = 12
    /\ decoded.kind = "err_len"
    /\ decoded.reads = {}

(***************************************************************************)
(* Claims about ProbeReading (checked under SpecReading).                  *)
(***************************************************************************)
ReadingAge == now - reading.timestamp

AmbientAboveLimit ==
    reading.ambient_temp # None /\ reading.ambient_temp[1] > caps.max_ambient_temp_f

InternalAboveLimit ==
    \E i \in DOMAIN reading.temperatures :
        reading.temperatures[i] > caps.max_internal_temp_f

\* at or above 90% of the limit
AmbientAtWarningLevel ==
    reading.ambient_temp # None
        /\ reading.ambient_temp[1] * 10 >= caps.max_ambient_temp_f * 9

InternalAtWarningLevel ==
    \E i \in DOMAIN reading.temperatures :
        reading.temperatures[i] * 10 >= caps.max_internal_temp_f * 9

\* C3: update_safety_status leaves Dangerous-Ambient when the ambient temperature
\* is above the max ambient limit, whether or not an internal position exceeds
\* its limit; otherwise Dangerous-Internal when any position is above the max
\* internal limit.
C3_DangerousClassification ==
    lastOp = "update_safety_status" =>
        /\ AmbientAboveLimit => reading.safety_status = "DangerousAmbient"
        /\ (~AmbientAboveLimit /\ InternalAboveLimit) =>
              reading.safety_status = "DangerousInternal"

\* C3 witness: ambient and an internal position both above their limits, and the
\* status left is Dangerous-Ambient.
C3_Witness ==
    /\ lastOp = "update_safety_status"
    /\ AmbientAboveLimit
    /\ InternalAboveLimit
    /\ reading.safety_status = "DangerousAmbient"

\* C4 (as claimed): with no Dangerous condition, update_safety_status leaves
\* Warning-Ambient-High when the ambient is at or above 90% of its limit, else
\* Warning-Internal-High when a position is at or above 90% of the internal
\* limit; Safe or Device-Offline only when nothing is at warning level.
C4_WarningRetained ==
    (lastOp = "update_safety_status" /\ ~AmbientAboveLimit /\ ~InternalAboveLimit) =>
        /\ AmbientAtWarningLevel => reading.safety_status = "WarningAmbientHigh"
        /\ (~AmbientAtWarningLevel /\ InternalAtWarningLevel) =>
              reading.safety_status = "WarningInternalHigh"
        /\ reading.safety_status \in {"Safe", "DeviceOffline"} =>
              (~AmbientAtWarningLevel /\ ~InternalAtWarningLevel)

\* C5: update_confidence sets the freshness tier from the whole-second age:
\* [0,30] Live, (30,300] Recent, (300,600] Stale, above 600 Dead, and the tier
\* carries exactly that age.
C5_FreshnessTiers ==
    lastOp = "update_confidence" =>
        /\ reading.freshness.age = ReadingAge
        /\ reading.freshness.tier =
              (CASE ReadingAge >= 0 /\ ReadingAge <= 30 -> "Live"
                 [] ReadingAge > 30 /\ ReadingAge <= 300 -> "Recent"
                 [] ReadingAge > 300 /\ ReadingAge <= 600 -> "Stale"
                 [] ReadingAge > 600 -> "Dead")

\* C5 witness: a reading re-evaluated at age 300, the last second of Recent.
C5_Witness ==
    /\ lastOp = "update_confidence"
    /\ ReadingAge = 300
    /\ reading.freshness = [tier |-> "Recent", age |-> 300]

\* the confidence the claim gives for an age, in hundredths
C6_Table(age) ==
    CASE age >= 0 /\ age <= 30 -> 100
      [] age > 30 /\ age <= 120 -> 80
      [] age > 120 /\ age <= 300 -> 50
      [] age > 300 /\ age <= 600 -> 20
      [] age > 600 -> 0

\* C6: update_confidence gives 1.0 for age [0,30], 0.8 for (30,120], 0.5 for
\* (120,300], 0.2 for (300,600], 0.0 above 600; as time advances with no new
\* payload no re-evaluation increases the confidence; it is 1.0 at age 0, 0.0
\* above 600 s and always within [0.0, 1.0].
C6_ConfidenceDecay ==
    /\ [](lastOp = "update_confidence" =>
            (/\ reading.confidence = C6_Table(ReadingAge)
             /\ (ReadingAge = 0 => reading.confidence = 100)
             /\ (ReadingAge > 600 => reading.confidence = 0)))
    /\ [](lastOp # "none" => (reading.confidence >= 0 /\ reading.confidence <= 100))
    /\ [][lastOp # "none" => reading'.confidence <= reading.confidence]_vars

\* C6 witness: a reading whose confidence has decayed to 0.5 re-evaluated past
\* 600 s, where it is 0.0.
C6_Witness ==
    /\ lastOp = "update_confidence"
    /\ ReadingAge = 601
    /\ reading.confidence = 0

\* C7: with no temperature at dangerous or warning level, update_safety_status
\* leaves Safe exactly when the re-evaluated confidence is above 0.1 and
\* Device-Offline otherwise; a reading decoded 700 s ago ends Dead, 0.0 and
\* Device-Offline.
C7_SafeOrOffline ==
    (/\ lastOp = "update_safety_status"
     /\ ~AmbientAboveLimit /\ ~InternalAboveLimit
     /\ ~AmbientAtWarningLevel /\ ~InternalAtWarningLevel) =>
        /\ reading.confidence = C6_Table(ReadingAge)
        /\ reading.safety_status = (IF reading.confidence > 10 THEN "Safe" ELSE "DeviceOffline")
        /\ ReadingAge = 700 =>
              /\ reading.freshness = [tier |-> "Dead", age |-> 700]
              /\ reading.confidence = 0
              /\ reading.safety_status = "DeviceOffline"

\* C7 witness: a reading with nothing at warning level evaluated 700 s after its
\* decode: Dead, confidence 0.0, Device-Offline.
C7_Witness ==
    /\ lastOp = "update_safety_status"
    /\ ~AmbientAboveLimit /\ ~InternalAboveLimit
    /\ ~AmbientAtWarningLevel /\ ~InternalAtWarningLevel
    /\ ReadingAge = 700
    /\ reading.freshness.tier = "Dead"
    /\ reading.confidence = 0
    /\ reading.safety_status = "DeviceOffline"

(***************************************************************************)
(* Claims about NetworkTopology (checked under SpecTopology).              *)
(***************************************************************************)
\* the (timestamp, rssi) pairs of the calls made for device address a, in call order
Arrivals(a) ==
    LET mine == SelectSeq(callLog, LAMBDA r : r.device_address = a)
    IN  [i \in 1..Len(mine) |-> <<mine[i].timestamp, mine[i].signal_strength>>]

\* the last min(Len(s), n) elements of s
LastN(s, n) == IF Len(s) <= n THEN s ELSE SubSeq(s, Len(s) - n + 1, Len(s))

\* C8: after any sequence of update_reading calls every device's signal history
\* holds at most 100 entries and is the last min(n, 100) (timestamp, rssi) pairs
\* of the calls made for that device address, in arrival order (one entry
\* appended per call at the back, the front one evicted past 100).
C8_SignalHistoryBounded ==
    \A a \in Addresses :
        IF a \in DOMAIN topology.signal_map
        THEN /\ Len(topology.signal_map[a]) <= 100
             /\ topology.signal_map[a] = LastN(Arrivals(a), 100)
        ELSE Arrivals(a) = <<>>

\* C8 witness: a device that received more than 100 readings holds exactly 100
\* entries and its oldest arrival is gone.
C8_Witness ==
    \E a \in DOMAIN topology.signal_map :
        /\ Len(Arrivals(a)) > 100
        /\ Len(topology.signal_map[a]) = 100
        /\ topology.signal_map[a][1] # Arrivals(a)[1]
        /\ topology.signal_map[a][100] = Arrivals(a)[Len(Arrivals(a))]

\* C9 (as claimed): every probe id in the reading map belongs to a device address
\* that is in the profile map.
C9_ReadingsHaveProfiles ==
    \A p \in DOMAIN topology.readings :
        topology.readings[p].device_address \in DOMAIN topology.devices

(***************************************************************************)
(* Claims about the acquisition loop (checked under SpecLoop).             *)
(***************************************************************************)
\* C10 (as claimed): whenever a payload got on the event path or the poll path
\* decodes successfully, then for each of its temperature positions the reading
\* is in the persistence sink and in the broadcast sink, and the topology store
\* holds the device's signal history and a latest reading of that decode.
C10_DecodedPayloadFeedsStoreAndSinks ==
    lastCall.kind = "ok" =>
        \A i \in 1..Len(lastCall.temps) :
            /\ \E k \in DOMAIN db :
                  db[k] = ReadingRow(lastCall.address, lastCall.timestamp, i - 1,
                                     lastCall.temps[i], lastCall.ambient_temp)
            /\ \E k \in DOMAIN bcast :
                  bcast[k] = TemperatureUpdate(lastCall.address, lastCall.name,
                                               lastCall.timestamp, i - 1,
                                               lastCall.temps[i], lastCall.ambient_temp)
            /\ lastCall.address \in DOMAIN topology.signal_map
            /\ \E p \in DOMAIN topology.readings :
                  /\ topology.readings[p].device_address = lastCall.address
                  /\ topology.readings[p].timestamp = lastCall.timestamp

\* C11 (as claimed): while the loop runs, a poll pass starts every 5 seconds
\* whatever events arrive: never more than the poll interval has passed since
\* the last poll pass started (since the loop started, before the first pass).
C11_PollPassEveryInterval ==
    loopPc \in {"select", "poll"} => now - lastPoll <= PollInterval

\* C12: a payload that fails to decode makes process_temperature_data report
\* Ok(0) and leave both sinks as they were; the loop step that made such a call
\* writes nothing to either sink, adds nothing to the count, makes that one call
\* only, and leaves the loop running (at select! or further in the poll pass).
C12_DecodeFailureDiscardsPayload ==
    /\ [](\A p \in LoopPayloads, d \in DeviceIds, failAt \in DbFailPositions :
            (p # <<>> /\ MeatStick_parse_temperature_data(p).kind # "ok") =>
                LET out == process_temperature_data(p, ConnectedDevices[d].name,
                                                    ConnectedDevices[d].address, now,
                                                    failAt, db, bcast)
                IN  /\ out.result = Ok(0)
                    /\ out.db = db
                    /\ out.bcast = bcast)
    /\ [][(lastCall' # lastCall /\ lastCall'.kind = "decode_err") =>
            (/\ db' = db
             /\ bcast' = bcast
             /\ notification_count' = notification_count
             /\ decodedCount' = decodedCount
             /\ returned' = None
             /\ loopPc' \in {"select", "poll"})]_vars

\* a poll pass whose first device returned undecodable bytes goes on to the
\* second device, with what earlier payloads wrote still in the sinks
C12_Witness ==
    /\ lastCall.kind = "decode_err"
    /\ loopPc = "poll"
    /\ devIdx = 2
    /\ db # <<>>

\* C15: when every step of the loop completes, monitor_devices returns; it
\* returns only from the loop condition, with the duration elapsed, and hands
\* back the counter; a poll pass in progress is never cut short, also when the
\* duration runs out during it.
C15_ReturnsOnlyAtExpiry ==
    /\ <>(loopPc = "done" /\ returned # None)
    /\ [](returned # None => Elapsed >= MonitorDuration)
    /\ [][returned' # returned =>
            (/\ loopPc = "select"
             /\ Elapsed >= MonitorDuration
             /\ returned' = Some(notification_count))]_vars
    /\ [][loopPc = "poll" => loopPc' \in {"poll", "select"}]_vars

\* the duration ran out while a poll pass was under way, the pass still
\* processed a payload after that, and then the loop returned
C15_Witness ==
    /\ returned # None
    /\ lastPoll > MonitorDuration
    /\ lastCall.kind = "ok"
    /\ lastCall.timestamp = lastPoll

\* C16 (as claimed): the count monitor_devices returns is the number of readings
\* the loop handed to the sinks during the session: the rows in the persistence
\* sink and the updates handed to the broadcast sink.
C16_ReturnedCountIsReadingsHandedOver ==
    returned # None =>
        /\ returned[1] = Len(db)
        /\ returned[1] = Len(bcast)

\* the entries of a sink come payload by payload: an entry is position 0 of a
\* payload, or the next position of the payload (same device, same timestamp)
\* of the entry before it; payloads follow each other in processing order
PayloadByPayload(sink) ==
    \A k \in DOMAIN sink :
        /\ sink[k].sensor_index # 0 =>
              /\ k > 1
              /\ sink[k - 1].sensor_index = sink[k].sensor_index - 1
              /\ sink[k - 1].device_address = sink[k].device_address
              /\ sink[k - 1].timestamp = sink[k].timestamp
        /\ k > 1 => sink[k - 1].timestamp <= sink[k].timestamp

\* C17 (as claimed): the readings of a payload reach the sinks contiguously, in
\* ascending sensor position and payload after payload in processing order, and
\* the reading applied last for a probe, the one of the payload the loop
\* processed last for it, is the one the topology store holds for that probe,
\* in place of the previous one.
C17_ReadingsAppliedInProcessingOrder ==
    /\ PayloadByPayload(db)
    /\ PayloadByPayload(bcast)
    /\ lastCall.kind = "ok" =>
          \E p \in DOMAIN topology.readings :
              /\ topology.readings[p].device_address = lastCall.address
              /\ topology.readings[p].timestamp = lastCall.timestamp
              /\ topology.readings[p].temperatures = lastCall.temps

\* the part of C17 about the two sinks alone
C17_SinksPayloadByPayload == PayloadByPayload(db) /\ PayloadByPayload(bcast)

\* whether the connected device with this address exposes MEATSTICK_CHAR
ExposesMeatStickChar(address) ==
    \E d \in DeviceIds :
        /\ ConnectedDevices[d].address = address
        /\ ConnectedDevices[d].has_meatstick_char

C13_TransportFailureSkipsOnlyThatDevice ==
    (/\ connPc \in {"monitor", "exit", "abort"}
     /\ \A i \in DOMAIN connLog : connLog[i] # "abort_persistence")
        => \A i \in DOMAIN connLog : connLog[i] # "none"

RoundDiv(n, d) == (2 * n + d) \div (2 * d)

\* the inverse of the scaling, from hundredths of a degree Fahrenheit:
\* celsius = (f - 32) * 5 / 9, then round((celsius + 20) / 0.05).  In
\* hundredths, (celsius + 2000) / 5 = ((f - 3200) * 5 + 18000) / 45.
InverseScaling(f) == RoundDiv((f - 3200) * 5 + 18000, 45)

\* whether a decoded value lies inside the sanity band [-40 F, 1100 F]
InSanityBand(f) == f >= -4000 /\ f <= 110000

\* C19: for a 13-byte payload and every sensor position whose decoded value
\* lies inside the sanity band, the inverse of the scaling applied to the
\* decoded value gives back the 13 bits packed at that position.
C19_ScalingRoundTrip ==
    (decoder = "meatstick" /\ Len(payload) = MinLenMeatStick) =>
        /\ decoded.kind = "ok"
        /\ \A p \in 1..SensorCount :
              InSanityBand(decoded.temps[p]) =>
                  InverseScaling(decoded.temps[p]) =
                      StreamBits(payload, FieldBits * (p - 1), FieldBits)

\* a decoded 13-byte payload holding the largest field, 8191 (733.19 F), and
\* the smallest, 0 (-4 F)
C19_Witness ==
    /\ decoder = "meatstick"
    /\ Len(payload) = MinLenMeatStick
    /\ decoded.kind = "ok"
    /\ \E p, q \in 1..SensorCount :
          /\ decoded.temps[p] = 73319 /\ InverseScaling(73319) = 8191
          /\ decoded.temps[q] = -400 /\ InverseScaling(-400) = 0

\* C20: a payload of at least 13 bytes always decodes, to exactly 8 entries, the
\* entry at each position being the value of the field packed at that position
\* when it lies in the sanity band and the sentinel 0 otherwise; the decoder
\* fails only on a payload shorter than 13 bytes, and what it returns as a
\* success is never made of sentinels only.
C20_EightEntriesSentinelNotDropped ==
    /\ (decoder = "meatstick" /\ Len(payload) >= MinLenMeatStick) =>
          /\ decoded.kind = "ok"
          /\ Len(decoded.temps) = SensorCount
          /\ \A p \in 1..SensorCount :
                LET f == ToFahrenheit(MeatStickCelsius(
                             StreamBits(payload, FieldBits * (p - 1), FieldBits)))
                IN  decoded.temps[p] = IF InSanityBand(f) THEN f ELSE 0
          /\ \E p \in 1..SensorCount : decoded.temps[p] # 0
    /\ (decoder = "meatstick" /\ decoded.kind # "ok") => Len(payload) < MinLenMeatStick

\* a payload longer than 13 bytes decoded to 8 entries, among them the lowest
\* value a field can give (-4 F), kept as it is
C20_Witness ==
    /\ decoder = "meatstick"
    /\ Len(payload) > MinLenMeatStick
    /\ decoded.kind = "ok"
    /\ Len(decoded.temps) = SensorCount
    /\ \E p \in 1..SensorCount : decoded.temps[p] = -400

(***************************************************************************)
(* Claims about the byte-formula decoder (checked under SpecDecode).       *)
(***************************************************************************)
\* the little-endian 16-bit field at byte offset k of a payload long enough
FieldLe(data, k) == data[k + 1] + 256 * data[k + 2]

\* whether a value fits a 32-bit signed integer (i32::MIN is -2147483647 - 1)
FitsI32(x) == x >= -2147483647 - 1 /\ x <= 2147483647

\* the correction of the ambient formula as the claim states it: the quotient
\* of (ra - min(48, oa)) * 16 * 589 by 1487, floored, and not below 0
Correction(ra, oa) == Max(0, ((ra - Min(48, oa)) * 16 * 589) \div 1487)

\* raw / 10 degrees Celsius in hundredths of a degree Fahrenheit: raw * 18 + 3200
TenthsCelsiusToF(raw) == raw * 18 + 3200

\* the values of a sequence that lie in the byte-formula sanity band
KeepInBand(fs) == SelectSeq(fs, LAMBDA f : f >= -4000 /\ f <= 60000)

C22_ByteFormulaFailsOnlyWhenShort ==
    decoder = "meater" =>
        /\ decoded.kind = "ok" <=> Len(payload) >= MinLenMeater
        /\ decoded.kind # "ok" => decoded.kind = "err_len"
        /\ decoded.kind = "ok" =>
              LET tip_f == MeaterFahrenheit(FieldLe(payload, 0))
                  amb_f == MeaterFahrenheit(MeaterAmbientRaw(FieldLe(payload, 0),
                                                             FieldLe(payload, 2),
                                                             FieldLe(payload, 4)))
                  tip_in == tip_f >= -4000 /\ tip_f <= 60000
                  amb_in == amb_f >= -4000 /\ amb_f <= 60000
              IN  /\ Len(decoded.temps) \in {0, 1, 2}
                  /\ \A k \in DOMAIN decoded.temps :
                        decoded.temps[k] >= -4000 /\ decoded.temps[k] <= 60000
                  /\ decoded.temps = IF tip_in /\ amb_in THEN <<tip_f, amb_f>>
                                     ELSE IF tip_in THEN <<tip_f>>
                                     ELSE IF amb_in THEN <<amb_f>>
                                     ELSE <<>>

\* a payload of 8 bytes or more whose tip value is in the band and whose
\* ambient value is not: a result of length 1
C22_Witness ==
    /\ decoder = "meater"
    /\ decoded.kind = "ok"
    /\ Len(decoded.temps) = 1
    /\ MeaterFahrenheit(MeaterAmbientRaw(FieldLe(payload, 0), FieldLe(payload, 2),
                                         FieldLe(payload, 4))) > 60000

(***************************************************************************)
(* Claims about capability detection (checked under SpecDetect)             *)
(***************************************************************************)
IsProbeFamilyName(n) == Len(n) >= 4 /\ <<n[1], n[2], n[3], n[4]>> = <<"c", "A", "0", "0">>

IsBaseStationName(n) == Len(n) >= 4 /\ <<n[1], n[2], n[3], n[4]>> = <<"c", "A", "0", "2">>

HasBrandToken(n) ==
    \E i \in 1..(Len(n) - 5) :
        /\ n[i] \in {"M", "m"} /\ n[i + 1] \in {"E", "e"} /\ n[i + 2] \in {"A", "a"}
        /\ n[i + 3] \in {"T", "t"} /\ n[i + 4] \in {"E", "e"} /\ n[i + 5] \in {"R", "r"}

HasKnownService(svcs) ==
    \E k \in DOMAIN svcs :
        svcs[k] \in { <<"8", "d", "5", "3", "d", "c", "1", "d">>,
                      <<"6", "e", "4", "0", "0", "0", "0", "1">>,
                      <<"6", "E", "4", "0", "0", "0", "0", "1">> }

\* C23: detect_from_device applies its rules in order and the first match wins:
\* a "cA00" name gives the 8-sensor variant when a known service identifier is
\* listed (in either letter case) and the 2-sensor variant with a lower ambient
\* ceiling when none is; otherwise a "cA02" name gives a zero-sensor profile
\* with no battery and a repeater; otherwise a name holding "MEATER" in any
\* letter case gives that vendor's block (0 sensors, repeater), plus or original
\* (2 sensors) profile; a name an earlier rule matches is never classified by a
\* later one, and has_repeater is true exactly for the zero-sensor profiles.
C23_RulesInOrderFirstMatchWins ==
    detResult # None =>
        LET p == detResult[1]
        IN  /\ IsProbeFamilyName(detName) =>
                /\ p.brand \in {"MeatStickV", "MeatStickV1"}
                /\ HasKnownService(detServices) =>
                       p.brand = "MeatStickV" /\ p.sensor_count = 8
                /\ ~HasKnownService(detServices) =>
                       /\ p.brand = "MeatStickV1" /\ p.sensor_count = 2
                       /\ p.max_ambient_temp_f < 100000
            /\ (~IsProbeFamilyName(detName) /\ IsBaseStationName(detName)) =>
                /\ p.brand = "MeatStickV"
                /\ p.sensor_count = 0
                /\ p.battery_life_hours = None
                /\ p.has_repeater
            /\ (~IsProbeFamilyName(detName) /\ ~IsBaseStationName(detName)
                    /\ HasBrandToken(detName)) =>
                /\ p.brand \in {"MeaterBlock", "MeaterPlus", "MeaterOriginal"}
                /\ p.brand = "MeaterBlock" => p.sensor_count = 0 /\ p.has_repeater
                /\ p.brand # "MeaterBlock" => p.sensor_count = 2
            /\ p.brand \in {"MeaterBlock", "MeaterPlus", "MeaterOriginal"} =>
                ~IsProbeFamilyName(detName) /\ ~IsBaseStationName(detName)
            /\ p.has_repeater <=> p.sensor_count = 0

\* a name the first rule matches that also holds the third rule's token was
\* classified by the first rule, on the strength of an upper-case identifier
C23_Witness ==
    /\ detName = <<"c", "A", "0", "0", "M", "E", "A", "T", "E", "R">>
    /\ detServices = << <<"1", "8", "0", "a">>, <<"6", "E", "4", "0", "0", "0", "0", "1">> >>
    /\ detResult # None
    /\ detResult[1].brand = "MeatStickV"
    /\ detResult[1].sensor_count = 8

\* C24: detect_from_device never fails for any name, address and service list:
\* every call returns a profile, and a device that matches none of the known
\* rules gets the fallback profile with exactly 1 sensor, the default thermal
\* limits, no repeater and the vendor tag Unknown with the advertised name
\* unchanged.
C24_NeverFailsUnknownGetsFallback ==
    [][detCalls' > detCalls =>
          /\ detResult' # None
          /\ (~IsProbeFamilyName(detName) /\ ~IsBaseStationName(detName)
                  /\ ~HasBrandToken(detName)) =>
                /\ detResult'[1].brand = "Unknown"
                /\ detResult'[1].brand_name = detName
                /\ detResult'[1].sensor_count = 1
                /\ detResult'[1].max_ambient_temp_f = 50000
                /\ detResult'[1].max_internal_temp_f = 20000
                /\ ~detResult'[1].has_repeater]_vars

\* a name that holds a rule's prefix, but not at its start, got the fallback
C24_Witness ==
    /\ detName = <<"x", "c", "A", "0", "0">>
    /\ detResult # None
    /\ detResult[1].brand = "Unknown"
    /\ detResult[1].brand_name = <<"x", "c", "A", "0", "0">>
    /\ detResult[1].sensor_count = 1

ValidAt(temps, k) == k <= Len(temps) /\ temps[k] > 0

\* C26: for a decoded bit-packed sequence, get_internal_temp returns position 3
\* (T4) when it is valid, else the highest valid position among T3, T2, T1, and
\* none only if no core position is valid; get_ambient_temp returns index 7 (T8)
\* when it is valid, else T7 or T6 when one of them is valid, and none only if
\* none of the three is valid.
C26_CoreAndAmbientFallbacks ==
    selected.done =>
        LET t == decoded.temps
        IN  /\ ValidAt(t, 4) => selected.internal_temp = Some(t[4])
            /\ \A k \in 1..3 :
                  (ValidAt(t, k) /\ \A j \in (k + 1)..4 : ~ValidAt(t, j)) =>
                      selected.internal_temp = Some(t[k])
            /\ selected.internal_temp = None <=> \A k \in 1..4 : ~ValidAt(t, k)
            /\ ValidAt(t, 8) => selected.ambient_temp = Some(t[8])
            /\ (~ValidAt(t, 8) /\ (ValidAt(t, 7) \/ ValidAt(t, 6))) =>
                  selected.ambient_temp \in {Some(t[k]) : k \in {k \in {6, 7} : ValidAt(t, k)}}
            /\ selected.ambient_temp = None <=> \A k \in 6..8 : ~ValidAt(t, k)

\* the half of C26 about get_internal_temp, which the code meets
C26_CoreFallback ==
    selected.done =>
        LET t == decoded.temps
        IN  /\ ValidAt(t, 4) => selected.internal_temp = Some(t[4])
            /\ \A k \in 1..3 :
                  (ValidAt(t, k) /\ \A j \in (k + 1)..4 : ~ValidAt(t, j)) =>
                      selected.internal_temp = Some(t[k])
            /\ selected.internal_temp = None <=> \A k \in 1..4 : ~ValidAt(t, k)

\* T4 was not valid and the selection fell back to T3
C26_CoreFallbackWitness ==
    /\ selected.done
    /\ ~ValidAt(decoded.temps, 4)
    /\ ValidAt(decoded.temps, 3)
    /\ selected.internal_temp = Some(decoded.temps[3])

\* what get_ambient_temp does: T8 when valid, none otherwise
C26_AmbientIsLastOrNone ==
    selected.done =>
        selected.ambient_temp =
            IF ValidAt(decoded.temps, 8) THEN Some(decoded.temps[8]) ELSE None

(***************************************************************************)
(* Claims about licence keys (checked under SpecLicense)                    *)
(***************************************************************************)
AllFeatures(license, on) == \A f \in DOMAIN license.features : license.features[f] = on

\* C27: validating a key produced by generate_license_key returns a license of
\* the generated tier, with that tier's features, that is valid when the expiry
\* is absent or in the future, and the Free license with every feature disabled
\* when the expiry is in the past; validate never returns an expired license,
\* and an empty key yields the Free license.
C27_LicenseKeyRoundTrip ==
    licValidated =>
        LET license == licResult.license
        IN  /\ licGenerated =>
                /\ licResult.ok
                /\ (licExpiry = None \/ Before(UtcNow(now), licExpiry[1])) =>
                      /\ license.tier = licTier
                      /\ AllFeatures(license, licTier = "Premium")
                      /\ license.expires_at = None \/ Before(UtcNow(now), license.expires_at[1])
                /\ (licExpiry # None /\ Before(licExpiry[1], UtcNow(now))) =>
                      /\ license.tier = "Free"
                      /\ AllFeatures(license, FALSE)
            /\ licResult.ok =>
                  license.expires_at = None \/ Before(UtcNow(now), license.expires_at[1])
            /\ licKey = <<>> =>
                  /\ licResult.ok
                  /\ license.tier = "Free"
                  /\ AllFeatures(license, FALSE)

\* a Premium key generated at second 0 with an expiry at second 2 was validated
\* at second 1 and came back as Premium with the same expiry
C27_Witness ==
    /\ licGenerated
    /\ licValidated
    /\ licTier = "Premium"
    /\ licExpiry = Some([year |-> CurrentYear, sec |-> 2])
    /\ now = 1
    /\ licResult.ok
    /\ licResult.license.tier = "Premium"
    /\ licResult.license.expires_at = licExpiry
    /\ licResult.license.features.cloud_sync

\* the same key validated at second 3, past its expiry, came back as Free
C27_ExpiredWitness ==
    /\ licGenerated
    /\ licValidated
    /\ licTier = "Premium"
    /\ licExpiry = Some([year |-> CurrentYear, sec |-> 2])
    /\ now = 3
    /\ licResult.ok
    /\ licResult.license.tier = "Free"

(***************************************************************************)
(* Claims about the order of persistence and broadcast (checked under       *)
(* SpecLoop)                                                                *)
(***************************************************************************)
\* a row of the persistence sink and an update of the broadcast sink are the
\* same reading
SameReading(row, update) ==
    /\ row.device_address = update.device_address
    /\ row.timestamp = update.timestamp
    /\ row.sensor_index = update.sensor_index
    /\ row.temperature = update.temperature

\* C28: a reading goes to the broadcast sink only after its write to the
\* persistence sink succeeded: every broadcast reading is in the persistence
\* sink, and when the write for position i of a payload fails, position i and
\* the later positions of that payload are neither persisted nor broadcast,
\* while the earlier positions are persisted and broadcast and stay so: what a
\* step adds to the two sinks is the same run of positions 0 .. i - 1 of the
\* payload it processed.
C28_BroadcastOnlyAfterPersisted ==
    /\ [](\A k \in DOMAIN bcast : \E j \in DOMAIN db : SameReading(db[j], bcast[k]))
    /\ [][/\ Len(db') >= Len(db)
          /\ SubSeq(db', 1, Len(db)) = db
          /\ Len(bcast') >= Len(bcast)
          /\ SubSeq(bcast', 1, Len(bcast)) = bcast
          /\ LET newRows == SubSeq(db', Len(db) + 1, Len(db'))
                 newUpdates == SubSeq(bcast', Len(bcast) + 1, Len(bcast'))
             IN  /\ Len(newRows) = Len(newUpdates)
                 /\ newRows # <<>> =>
                       /\ lastCall'.kind = "ok"
                       /\ Len(newRows) <= Len(lastCall'.temps)
                 /\ \A k \in DOMAIN newRows :
                       /\ newRows[k].sensor_index = k - 1
                       /\ newRows[k].temperature = lastCall'.temps[k]
                       /\ newRows[k].device_address = lastCall'.address
                       /\ newRows[k].timestamp = lastCall'.timestamp
                       /\ SameReading(newRows[k], newUpdates[k])]_vars

\* a payload of 8 positions whose write failed at position 3 came after a
\* payload that went through: 8 + 3 readings are in each sink, the last is
\* position 2
C28_Witness ==
    /\ Len(db) = 11
    /\ Len(bcast) = 11
    /\ db[11].sensor_index = 2
    /\ bcast[11].sensor_index = 2
    /\ db[8].sensor_index = 7
    /\ lastCall.kind = "ok"
    /\ Len(lastCall.temps) = 8

(***************************************************************************)
(* Claims about the early return of update_safety_status (checked under     *)
(* SpecReading)                                                             *)
(***************************************************************************)
\* the reading is above a hard limit of the profile
AboveAmbientLimit == reading.ambient_temp # None /\ reading.ambient_temp[1] > caps.max_ambient_temp_f

AboveInternalLimit ==
    \E k \in DOMAIN reading.temperatures : reading.temperatures[k] > caps.max_internal_temp_f

\* C29: when update_safety_status classifies a reading as Dangerous-Ambient or
\* Dangerous-Internal it returns before re-evaluating the age and leaves the
\* confidence and the freshness of the reading as they were; the two are
\* recomputed from the current age only on the paths that end in Safe or
\* Device-Offline.
C29_DangerousLeavesConfidenceAlone ==
    [][lastOp' = "update_safety_status" =>
          /\ (AboveAmbientLimit \/ AboveInternalLimit) =>
                /\ reading'.safety_status \in {"DangerousAmbient", "DangerousInternal"}
                /\ reading'.confidence = reading.confidence
                /\ reading'.freshness = reading.freshness
          /\ ~(AboveAmbientLimit \/ AboveInternalLimit) =>
                /\ reading'.safety_status \in {"Safe", "DeviceOffline"}
                /\ reading'.confidence = ConfidenceFor(AgeSeconds(now, reading.timestamp))
                /\ reading'.freshness = FreshnessFor(AgeSeconds(now, reading.timestamp))
          /\ reading'.safety_status \in {"DangerousAmbient", "DangerousInternal"} =>
                (AboveAmbientLimit \/ AboveInternalLimit)]_vars

\* a reading classified Dangerous-Internal kept a confidence that its age no
\* longer gives
C29_Witness ==
    /\ lastOp = "update_safety_status"
    /\ reading.safety_status = "DangerousInternal"
    /\ reading.confidence # ConfidenceFor(AgeSeconds(now, reading.timestamp))
    /\ reading.freshness # FreshnessFor(AgeSeconds(now, reading.timestamp))

(***************************************************************************)
(* Claims about the order of the byte-formula result (checked under         *)
(* SpecDecode)                                                              *)
(***************************************************************************)
\* the tip value of the payload at hand, in hundredths of a degree Fahrenheit
TipOfPayload == TenthsCelsiusToF(FieldLe(payload, 0))

\* its ambient value
AmbientOfPayload ==
    TenthsCelsiusToF(FieldLe(payload, 0)
                     + Correction(FieldLe(payload, 2), FieldLe(payload, 4)))

\* C30: in every result of the byte-formula decoder the ambient temperature
\* never appears without the tip temperature: the ambient value is never below
\* the tip value, a result of one element holds the tip, a result of two holds
\* the tip and then the ambient value, and whenever the tip is outside the
\* sanity band the result is empty.
C30_AmbientNeverWithoutTip ==
    (decoder = "meater" /\ decoded.kind = "ok") =>
        /\ AmbientOfPayload >= TipOfPayload
        /\ Len(decoded.temps) <= 2
        /\ Len(decoded.temps) >= 1 =>
              /\ decoded.temps[1] = TipOfPayload
              /\ TipOfPayload >= -4000 /\ TipOfPayload <= 60000
        /\ Len(decoded.temps) = 2 => decoded.temps[2] = AmbientOfPayload
        /\ (TipOfPayload < -4000 \/ TipOfPayload > 60000) => decoded.temps = <<>>

\* a tip inside the band with an ambient value above it and outside the band:
\* the result is the tip alone
C30_Witness ==
    /\ decoder = "meater"
    /\ decoded.kind = "ok"
    /\ Len(decoded.temps) = 1
    /\ decoded.temps[1] = TipOfPayload
    /\ AmbientOfPayload > TipOfPayload
    /\ AmbientOfPayload > 60000

\* a tip outside the band: the result is empty
C30_EmptyWitness ==
    /\ decoder = "meater"
    /\ decoded.kind = "ok"
    /\ TipOfPayload > 60000
    /\ decoded.temps = <<>>

=============================================================================
